---- MODULE Spec2Model ----
(***************************************************************************)
(* Clique search engine of AAChallenge: the Graph class and the solvers of *)
(* k_clique_solver.cpp, kclique.cpp and maximum_clique.cpp.                *)
(*                                                                         *)
(* Vertices are the integers 0 .. n-1 as in the source; a C++ vector is a  *)
(* sequence (1-based here, so vector index i is sequence index i+1).       *)
(***************************************************************************)
EXTENDS Integers, Sequences, FiniteSets, TLC

VARIABLES
    graph,      \* the Graph object: n, adj_matrix, adj_list, degrees
    hist,       \* the last addEdge call: its arguments and the Graph before it
    k,          \* the target clique size handed to a solver
    pc,         \* position of the running program
    \* ExactBacktrackingSolver
    current_clique,   \* the partial clique of the search
    best_clique,      \* the clique saved on success
    nodes_explored,   \* calls of backtrack so far
    found,            \* success flag
    stack,            \* the active calls of backtrack: [start, i] per frame
    result1,          \* the SolutionResult solve() returned
    \* GreedyColoringSolver
    colors,           \* the colouring greedyColoring returned
    greedy_clique,    \* best_clique of GreedyColoringSolver::solve
    class_hit,        \* the loop over colour classes left through its break
    result2,          \* the SolutionResult solve() returned
    \* kclique.cpp and maximum_clique.cpp (maximum clique)
    input,            \* the input file: n and the edge list
    kc_graph,         \* the Graph of kclique.cpp: n, m, adjMat, degrees
    res_exact,        \* what solve_exact returned, one entry per call
    kc_nodes,         \* history: the search nodes of expand, one entry per call
    mc_graph,         \* the Graph of maximum_clique.cpp: n, m, adj, adjSet
    exact,            \* the ExactBacktracking object: bestClique, currentClique
    exactClique,      \* what exact.findMaxClique() returned, one entry per call
    bnb,              \* the BranchAndBound object: bestClique, currentClique, order
    bnbClique,        \* what bnb.findMaxClique() returned, one entry per call
    bnb_nodes,        \* history: the search nodes of branchAndBound, per call
    bnb_commits,      \* history: the vertices the root call committed, in order, per call
    kc_heur,          \* kclique.cpp heuristics: res_greedy, and best_size, k, iters, res_rand of solve_randomized
    \* TabuSearchSolver
    max_iterations,   \* constructor argument max_iter
    tabu_tenure,      \* constructor argument tenure
    current_solution, \* local of solve()
    best_solution,    \* local of solve()
    tabu_list,        \* map<int,int>: vertex -> first iteration it is free again
    iterations,       \* loop counter of solve()
    removed_at,       \* history: vertex -> the iterations at which it was removed
    result3,          \* the SolutionResult solve() returned
    \* src/kclique.cpp (decision search)
    dg,               \* its Graph: n, k, adjMat, degree, and whether they were sized
    runs              \* the benchmarks run so far: found, clique, search nodes

exactVars == <<current_clique, best_clique, nodes_explored, found, stack, result1>>

greedyVars == <<colors, greedy_clique, class_hit, result2>>

optVars == <<input, kc_graph, res_exact, kc_nodes, mc_graph, exact, exactClique,
             bnb, bnbClique, bnb_nodes, bnb_commits, kc_heur>>

tabuVars == <<max_iterations, tabu_tenure, current_solution, best_solution,
              tabu_list, iterations, removed_at, result3>>

decVars == <<dg, runs>>

vars == <<graph, hist, k, pc, exactVars, greedyVars, optVars, tabuVars, decVars>>

\* What the steps of each component leave alone.
graphFrame == <<k, pc, exactVars, greedyVars, optVars, tabuVars, decVars>>

exactFrame == <<graph, hist, k, greedyVars, optVars, tabuVars, decVars>>

greedyFrame == <<graph, hist, k, exactVars, optVars, tabuVars, decVars>>

optFrame == <<graph, hist, k, exactVars, greedyVars, tabuVars, decVars>>

tabuFrame == <<graph, hist, k, exactVars, greedyVars, optVars, decVars,
               max_iterations, tabu_tenure>>

decFrame == <<graph, hist, k, exactVars, greedyVars, optVars, tabuVars>>

\* Largest vertex count of the graphs explored.
MaxN == 4

\* Number of findMaxClique calls made on one solver object.
MaxCalls == 2

\* Largest vertex count of the graphs the tabu search is run on.
TabuN == 4

\* Largest iteration budget of the tabu search.
MaxIter == 7

\* Largest of the small tabu tenures tried besides the default.
MaxTenure == 2

\* The iteration counts solve_randomized is called with: 1 .. MaxShuffles.
MaxShuffles == 3

\* The runs that reach the purge: vertices of the graph, and the iteration
\* budget (two purges and a few iterations more).
PurgeN == 3

PurgeBudget == 205

\* TabuSearchSolver(g, clique_size, max_iter = 1000, tenure = 10)
DefaultTenure == 10

\* if (iterations % 100 == 0): the period of the tabu purge.
PurgePeriod == 100

Vertices(n) == 0 .. (n - 1)

\* Arguments tried for addEdge: every vertex id plus one value below and
\* values above the valid range.
ArgRange == (0 - 1) .. MaxN

(***************************************************************************)
(* class Graph (k_clique_solver.cpp)                                       *)
(***************************************************************************)

\* Graph(int nodes): empty matrix, empty neighbour sets, zero degrees.
Graph(nodes) ==
    [ n          |-> nodes,
      adj_matrix |-> [u \in Vertices(nodes) |-> [v \in Vertices(nodes) |-> FALSE]],
      adj_list   |-> [u \in Vertices(nodes) |-> {}],
      degrees    |-> [u \in Vertices(nodes) |-> 0] ]

\* addEdge without the u == v test.
addEdgeSelfLoop(g, u, v) ==
    IF u < 0 \/ v < 0 \/ u >= g.n \/ v >= g.n
    THEN g
    ELSE IF g.adj_matrix[u][v]
    THEN g
    ELSE LET m1 == [g.adj_matrix EXCEPT ![u][v] = TRUE]
             m2 == [m1 EXCEPT ![v][u] = TRUE]
             l1 == [g.adj_list EXCEPT ![u] = @ \cup {v}]
             l2 == [l1 EXCEPT ![v] = @ \cup {u}]
             d1 == [g.degrees EXCEPT ![u] = @ + 1]
             d2 == [d1 EXCEPT ![v] = @ + 1]
         IN  [g EXCEPT !.adj_matrix = m2, !.adj_list = l2, !.degrees = d2]

\* addEdge without the already-present test.
addEdgeNoDupCheck(g, u, v) ==
    IF u < 0 \/ v < 0 \/ u >= g.n \/ v >= g.n
    THEN g
    ELSE IF u = v
    THEN g
    ELSE LET m1 == [g.adj_matrix EXCEPT ![u][v] = TRUE]
             m2 == [m1 EXCEPT ![v][u] = TRUE]
             l1 == [g.adj_list EXCEPT ![u] = @ \cup {v}]
             l2 == [l1 EXCEPT ![v] = @ \cup {u}]
             d1 == [g.degrees EXCEPT ![u] = @ + 1]
             d2 == [d1 EXCEPT ![v] = @ + 1]
         IN  [g EXCEPT !.adj_matrix = m2, !.adj_list = l2, !.degrees = d2]

\* addEdge that sets only one direction of the matrix.
addEdgeOneWay(g, u, v) ==
    IF u < 0 \/ v < 0 \/ u >= g.n \/ v >= g.n
    THEN g
    ELSE IF u = v \/ g.adj_matrix[u][v]
    THEN g
    ELSE LET m1 == [g.adj_matrix EXCEPT ![u][v] = TRUE]
             l1 == [g.adj_list EXCEPT ![u] = @ \cup {v}]
             l2 == [l1 EXCEPT ![v] = @ \cup {u}]
             d1 == [g.degrees EXCEPT ![u] = @ + 1]
             d2 == [d1 EXCEPT ![v] = @ + 1]
         IN  [g EXCEPT !.adj_matrix = m1, !.adj_list = l2, !.degrees = d2]

\* void addEdge(int u, int v): the range test, then the self-loop and
\* already-present test, then both matrix cells, both neighbour sets and
\* both degree counters, in the order of the source.
addEdge(g, u, v) ==
    IF u < 0 \/ v < 0 \/ u >= g.n \/ v >= g.n
    THEN g
    ELSE IF u = v \/ g.adj_matrix[u][v]
    THEN g
    ELSE LET m1 == [g.adj_matrix EXCEPT ![u][v] = TRUE]
             m2 == [m1 EXCEPT ![v][u] = TRUE]
             l1 == [g.adj_list EXCEPT ![u] = @ \cup {v}]
             l2 == [l1 EXCEPT ![v] = @ \cup {u}]
             d1 == [g.degrees EXCEPT ![u] = @ + 1]
             d2 == [d1 EXCEPT ![v] = @ + 1]
         IN  [g EXCEPT !.adj_matrix = m2, !.adj_list = l2, !.degrees = d2]

hasEdge(g, u, v) == g.adj_matrix[u][v]

getNodes(g) == g.n

getNeighbors(g, u) == g.adj_list[u]

getDegree(g, u) == g.degrees[u]

\* isClique(nodes): every pair of positions i < j of the vector is adjacent.
isClique(g, nodes) ==
    \A i \in 1 .. Len(nodes) : \A j \in (i + 1) .. Len(nodes) :
        g.adj_matrix[nodes[i]][nodes[j]]

(***************************************************************************)
(* Building a Graph: any sequence of addEdge calls on a fresh Graph(n).    *)
(***************************************************************************)

NoCall == [called |-> FALSE]

\* A SolutionResult that no solver has filled in yet.
NoResult == [returned |-> FALSE, clique |-> <<>>, found |-> FALSE, nodes_explored |-> 0]

\* ExactBacktrackingSolver(g, clique_size): nodes_explored(0), found(false),
\* both vectors empty.
ExactConstructed ==
    /\ current_clique = <<>>
    /\ best_clique = <<>>
    /\ nodes_explored = 0
    /\ found = FALSE
    /\ stack = <<>>
    /\ result1 = NoResult

\* The maximum-clique programs are not running.
\* The heuristics of kclique.cpp before they run.
NoHeur == [res_greedy |-> 0, best_size |-> 0, k |-> 0, iters |-> 0, res_rand |-> 0]

OptUnused ==
    /\ input = [n |-> 0, edges |-> <<>>]
    /\ kc_graph = [n |-> 0, m |-> 0, adjMat |-> <<>>, degrees |-> <<>>]
    /\ res_exact = <<>>
    /\ kc_nodes = <<>>
    /\ mc_graph = [n |-> 0, m |-> 0, adj |-> <<>>, adjSet |-> <<>>]
    /\ exact = [bestClique |-> <<>>, currentClique |-> <<>>]
    /\ exactClique = <<>>
    /\ bnb = [bestClique |-> <<>>, currentClique |-> <<>>, order |-> <<>>]
    /\ bnbClique = <<>>
    /\ bnb_nodes = <<>>
    /\ bnb_commits = <<>>
    /\ kc_heur = NoHeur

\* The locals of TabuSearchSolver::solve before solve() runs.
TabuLocalsFresh ==
    /\ current_solution = <<>>
    /\ best_solution = <<>>
    /\ tabu_list = <<>>
    /\ iterations = 0
    /\ removed_at = <<>>
    /\ result3 = NoResult

\* No TabuSearchSolver has been constructed.
TabuUnused ==
    /\ max_iterations = 0
    /\ tabu_tenure = 0
    /\ TabuLocalsFresh

\* The decision search of src/kclique.cpp before its input is read.
DecUnused ==
    /\ dg = [n |-> 0, k |-> 0, loaded |-> FALSE, adjMat |-> <<>>, degree |-> <<>>]
    /\ runs = <<>>

\* GreedyColoringSolver(g, clique_size): no state besides graph and k; the
\* locals of solve() are empty until solve() runs.
GreedyConstructed ==
    /\ colors = <<>>
    /\ greedy_clique = <<>>
    /\ class_hit = FALSE
    /\ result2 = NoResult

GraphInit ==
    /\ \E nodes \in 0 .. MaxN : graph = Graph(nodes)
    /\ hist = NoCall
    /\ k = 0
    /\ pc = "build"
    /\ ExactConstructed
    /\ GreedyConstructed
    /\ OptUnused
    /\ TabuUnused
    /\ DecUnused

\* One call g.addEdge(u, v) with arbitrary integer arguments.
AddEdge ==
    /\ pc = "build"
    /\ \E u \in ArgRange, v \in ArgRange :
          /\ graph' = addEdge(graph, u, v)
          /\ hist' = [called |-> TRUE, u |-> u, v |-> v, before |-> graph]
    /\ UNCHANGED graphFrame

GraphNext == AddEdge

SpecGraph == GraphInit /\ [][GraphNext]_vars


(***************************************************************************)
(* Input of the solvers: a Graph built by addEdge calls, and a target k.   *)
(***************************************************************************)

\* The vertex pairs u < v of a graph with n vertices.
EdgePairs(n) == {e \in Vertices(n) \X Vertices(n) : e[1] < e[2]}

RECURSIVE BuildGraph(_, _)
\* Graph(n) followed by one addEdge call per pair of E.
BuildGraph(n, E) ==
    IF E = {}
    THEN Graph(n)
    ELSE LET e == CHOOSE x \in E : TRUE
         IN  addEdge(BuildGraph(n, E \ {e}), e[1], e[2])

\* Targets tried: 0 .. MaxN + 1, so that k > n happens for every n.
Targets == 0 .. (MaxN + 1)

(***************************************************************************)
(* class ExactBacktrackingSolver (k_clique_solver.cpp)                     *)
(*                                                                         *)
(* The recursion of backtrack is an explicit stack; a frame holds the      *)
(* argument start and the loop variable i.  pc is the position of the top  *)
(* frame: "enter" at the first line of backtrack, "loop" at the loop test, *)
(* "return" when the call has returned to its caller.                      *)
(***************************************************************************)

Top == stack[Len(stack)]

Pop(s) == SubSeq(s, 1, Len(s) - 1)

\* The adjacency test against the last node of the clique only.
is_connectedLastOnly(g, clique, i) ==
    Len(clique) = 0 \/ hasEdge(g, i, clique[Len(clique)])

\* The adjacency test starting at the second node of the clique.
is_connectedSkipFirst(g, clique, i) ==
    \A j \in 2 .. Len(clique) : hasEdge(g, i, clique[j])

\* The inner loop of backtrack: i is adjacent to every node of the clique.
is_connected(g, clique, i) ==
    \A j \in 1 .. Len(clique) : hasEdge(g, i, clique[j])

\* solve(), lines 161-166: reset the state and call backtrack(0).
ExactSolve ==
    /\ pc = "exact"
    /\ current_clique' = <<>>
    /\ best_clique' = <<>>
    /\ nodes_explored' = 0
    /\ found' = FALSE
    /\ stack' = <<[start |-> 0, i |-> 0]>>
    /\ pc' = "enter"
    /\ UNCHANGED <<exactFrame, result1>>

\* backtrack with the pruning test available <= needed.
ExactEnterPruneOffByOne ==
    /\ pc = "enter"
    /\ nodes_explored' = nodes_explored + 1
    /\ IF Len(current_clique) = k
       THEN /\ best_clique' = current_clique
            /\ found' = TRUE
            /\ pc' = "return"
       ELSE /\ UNCHANGED <<best_clique, found>>
            /\ LET needed == k - Len(current_clique)
                   available == getNodes(graph) - Top.start
               IN  pc' = IF available <= needed THEN "return" ELSE "loop"
    /\ UNCHANGED <<exactFrame, current_clique, stack, result1>>

\* backtrack without the counting bound of lines 128-133.
ExactEnterNoBound ==
    /\ pc = "enter"
    /\ nodes_explored' = nodes_explored + 1
    /\ IF Len(current_clique) = k
       THEN /\ best_clique' = current_clique
            /\ found' = TRUE
            /\ pc' = "return"
       ELSE /\ UNCHANGED <<best_clique, found>>
            /\ pc' = "loop"
    /\ UNCHANGED <<exactFrame, current_clique, stack, result1>>

\* backtrack(start), lines 121-133: count the node, the success test, the
\* counting bound.
ExactEnter ==
    /\ pc = "enter"
    /\ nodes_explored' = nodes_explored + 1
    /\ IF Len(current_clique) = k
       THEN /\ best_clique' = current_clique
            /\ found' = TRUE
            /\ pc' = "return"
       ELSE /\ UNCHANGED <<best_clique, found>>
            /\ LET needed == k - Len(current_clique)
                   available == getNodes(graph) - Top.start
               IN  pc' = IF available < needed THEN "return" ELSE "loop"
    /\ UNCHANGED <<exactFrame, current_clique, stack, result1>>

\* The loop of backtrack without its "if (found) return".
ExactLoopNoEarlyExit ==
    /\ pc = "loop"
    /\ IF Top.i >= getNodes(graph)
       THEN /\ pc' = "return"
            /\ UNCHANGED <<current_clique, stack>>
       ELSE IF is_connected(graph, current_clique, Top.i)
       THEN /\ current_clique' = Append(current_clique, Top.i)
            /\ stack' = Append(stack, [start |-> Top.i + 1, i |-> Top.i + 1])
            /\ pc' = "enter"
       ELSE /\ stack' = [stack EXCEPT ![Len(stack)].i = @ + 1]
            /\ pc' = "loop"
            /\ UNCHANGED current_clique
    /\ UNCHANGED <<exactFrame, best_clique, nodes_explored, found, result1>>

\* One pass of the loop of backtrack, lines 135-151: the loop test, the
\* early exit on found, the adjacency test, and either the commit of i with
\* the recursive call or the step to i + 1.
ExactLoop ==
    /\ pc = "loop"
    /\ IF Top.i >= getNodes(graph)
       THEN /\ pc' = "return"
            /\ UNCHANGED <<current_clique, stack>>
       ELSE IF found
       THEN /\ pc' = "return"
            /\ UNCHANGED <<current_clique, stack>>
       ELSE IF is_connected(graph, current_clique, Top.i)
       THEN /\ current_clique' = Append(current_clique, Top.i)
            /\ stack' = Append(stack, [start |-> Top.i + 1, i |-> Top.i + 1])
            /\ pc' = "enter"
       ELSE /\ stack' = [stack EXCEPT ![Len(stack)].i = @ + 1]
            /\ pc' = "loop"
            /\ UNCHANGED current_clique
    /\ UNCHANGED <<exactFrame, best_clique, nodes_explored, found, result1>>

\* The return of a recursive call without the pop_back of line 149.
ExactReturnNoPop ==
    /\ pc = "return"
    /\ Len(stack) > 1
    /\ stack' = [Pop(stack) EXCEPT ![Len(stack) - 1].i = @ + 1]
    /\ pc' = "loop"
    /\ UNCHANGED <<exactFrame, current_clique, best_clique, nodes_explored, found, result1>>

\* A recursive call returns into the loop of its caller, lines 148-149 and
\* the i++ of line 135: uncommit the vertex and step to the next one.
ExactReturn ==
    /\ pc = "return"
    /\ Len(stack) > 1
    /\ current_clique' = Pop(current_clique)
    /\ stack' = [Pop(stack) EXCEPT ![Len(stack) - 1].i = @ + 1]
    /\ pc' = "loop"
    /\ UNCHANGED <<exactFrame, best_clique, nodes_explored, found, result1>>

\* backtrack(0) returns to solve(), lines 171-178: the result is built.
ExactFinish ==
    /\ pc = "return"
    /\ Len(stack) = 1
    /\ stack' = <<>>
    /\ result1' = [returned |-> TRUE, clique |-> best_clique, found |-> found,
                   nodes_explored |-> nodes_explored]
    /\ pc' = "greedy"
    /\ UNCHANGED <<exactFrame, current_clique, best_clique, nodes_explored, found>>


(***************************************************************************)
(* class GreedyColoringSolver (k_clique_solver.cpp)                        *)
(***************************************************************************)

\* The elements of a sequence.
Range(seq) == {seq[j] : j \in 1 .. Len(seq)}

\* pair<int,int> operator< on (degree, vertex) pairs.
PairLess(g, a, b) ==
    \/ getDegree(g, a) < getDegree(g, b)
    \/ (getDegree(g, a) = getDegree(g, b) /\ a < b)

RECURSIVE SortPairsDesc(_, _)
\* sort(degree_nodes.rbegin(), degree_nodes.rend()): the (degree, vertex)
\* pairs in descending order; the pairs are distinct, so the order is fixed.
SortPairsDesc(g, S) ==
    IF S = {}
    THEN <<>>
    ELSE LET m == CHOOSE v \in S : \A w \in S \ {v} : PairLess(g, w, v)
         IN  <<m>> \o SortPairsDesc(g, S \ {m})

\* The number of colours a vertex has seen, taken as its free colour.
FirstFreeCount(S) == Cardinality(S)

\* The colour without the while loop: always 0.
FirstFreeZero(S) == 0

\* int color = 0; while (neighbor_colors[v].count(color)) color++;
FirstFree(S) ==
    CHOOSE c \in 0 .. Cardinality(S) :
        c \notin S /\ \A d \in 0 .. (c - 1) : d \in S

RECURSIVE ColorLoop(_, _, _, _, _)
\* The loop of greedyColoring over degree_nodes, lines 199-209.
ColorLoop(g, order, idx, cols, neighbor_colors) ==
    IF idx > Len(order)
    THEN cols
    ELSE LET v == order[idx]
             color == FirstFree(neighbor_colors[v])
         IN  ColorLoop(g, order, idx + 1,
                 [cols EXCEPT ![v] = color],
                 [u \in DOMAIN neighbor_colors |->
                     IF u \in getNeighbors(g, v)
                     THEN neighbor_colors[u] \cup {color}
                     ELSE neighbor_colors[u]])

\* vector<int> greedyColoring(): colors start at -1.
greedyColoring(g) ==
    ColorLoop(g, SortPairsDesc(g, Vertices(getNodes(g))), 1,
        [v \in Vertices(getNodes(g)) |-> 0 - 1],
        [v \in Vertices(getNodes(g)) |-> {}])

\* int connections of v inside candidates, lines 222-227.
Connections(g, candidates, v) ==
    Cardinality({j \in 1 .. Len(candidates) :
        v # candidates[j] /\ hasEdge(g, v, candidates[j])})

\* best_node of lines 218-233: the first candidate with the most
\* connections (the update is on strictly more).
BestNode(g, candidates) ==
    LET first == CHOOSE j \in 1 .. Len(candidates) :
            /\ \A i \in 1 .. Len(candidates) :
                  Connections(g, candidates, candidates[i])
                      <= Connections(g, candidates, candidates[j])
            /\ \A i \in 1 .. (j - 1) :
                  Connections(g, candidates, candidates[i])
                      < Connections(g, candidates, candidates[j])
    IN  candidates[first]

\* new_candidates of lines 239-245, in the order of candidates.
FilterAdjacent(g, candidates, best_node) ==
    LET Keep(v) == v # best_node /\ hasEdge(g, best_node, v)
    IN  SelectSeq(candidates, Keep)

RECURSIVE BuildLoop(_, _, _, _)
\* The while loop of buildCliqueFromSubset, lines 217-246.
BuildLoop(g, kk, candidates, clique) ==
    IF Len(candidates) = 0 \/ ~(Len(clique) < kk)
    THEN clique
    ELSE LET best_node == BestNode(g, candidates)
         IN  BuildLoop(g, kk, FilterAdjacent(g, candidates, best_node),
                       Append(clique, best_node))

\* vector<int> buildCliqueFromSubset(vector<int> candidates)
buildCliqueFromSubset(g, kk, candidates) == BuildLoop(g, kk, candidates, <<>>)

RECURSIVE AscendingSeq(_)
\* The elements of a set of integers in ascending order.
AscendingSeq(S) ==
    IF S = {}
    THEN <<>>
    ELSE LET m == CHOOSE v \in S : \A w \in S : v <= w
         IN  <<m>> \o AscendingSeq(S \ {m})

\* map<int, vector<int>> color_classes, lines 260-263, as the sequence of
\* its values in key order: one vector of ascending vertex ids per colour.
ColorClasses(g, cols) ==
    LET used == AscendingSeq({cols[v] : v \in Vertices(getNodes(g))})
    IN  [c \in 1 .. Len(used) |->
            AscendingSeq({v \in Vertices(getNodes(g)) : cols[v] = used[c]})]

RECURSIVE ClassLoop(_, _, _, _, _)
\* The loop over the colour classes, lines 267-281: [best, hit], hit being
\* the exit through the break.
ClassLoop(g, kk, classes, idx, best) ==
    IF idx > Len(classes)
    THEN [best |-> best, hit |-> FALSE]
    ELSE IF Len(classes[idx]) >= kk
    THEN LET clique == buildCliqueFromSubset(g, kk, classes[idx])
         IN  IF Len(clique) >= kk /\ isClique(g, clique)
             THEN [best |-> SubSeq(clique, 1, kk), hit |-> TRUE]
             ELSE ClassLoop(g, kk, classes, idx + 1,
                            IF Len(clique) > Len(best) THEN clique ELSE best)
    ELSE ClassLoop(g, kk, classes, idx + 1, best)

RECURSIVE DegreeOrders(_, _)
\* The results sort() may give for the comparator degree(a) > degree(b):
\* every order of S with non-increasing degree (ties in any order).
DegreeOrders(g, S) ==
    IF S = {}
    THEN {<<>>}
    ELSE LET top == {v \in S : \A w \in S : getDegree(g, w) <= getDegree(g, v)}
         IN  UNION {{<<v>> \o t : t \in DegreeOrders(g, S \ {v})} : v \in top}

\* solve(), line 258.
GreedyColoring ==
    /\ pc = "greedy"
    /\ colors' = greedyColoring(graph)
    /\ pc' = "classes"
    /\ UNCHANGED <<greedyFrame, greedy_clique, class_hit, result2>>

\* solve(), lines 260-281: the colour classes and the loop over them.
GreedyClasses ==
    /\ pc = "classes"
    /\ LET r == ClassLoop(graph, k, ColorClasses(graph, colors), 1, <<>>)
       IN  /\ greedy_clique' = r.best
           /\ class_hit' = r.hit
    /\ pc' = "fallback"
    /\ UNCHANGED <<greedyFrame, colors, result2>>

\* solve(), lines 283-294: the fallback over all nodes sorted by degree.
GreedyFallback ==
    /\ pc = "fallback"
    /\ IF Len(greedy_clique) < k
       THEN \E all_nodes \in DegreeOrders(graph, Vertices(getNodes(graph))) :
               greedy_clique' = buildCliqueFromSubset(graph, k, all_nodes)
       ELSE UNCHANGED greedy_clique
    /\ pc' = "result2"
    /\ UNCHANGED <<greedyFrame, colors, class_hit, result2>>

\* The comparison of line 228 turned round: the fewest connections.
FewestConnections(g, S) ==
    LET conn(v) == Cardinality({u \in S : v # u /\ hasEdge(g, v, u)})
    IN  {v \in S : \A w \in S : conn(v) <= conn(w)}

\* The vertices of the set S with the most connections inside S.
MostConnections(g, S) ==
    LET conn(v) == Cardinality({u \in S : v # u /\ hasEdge(g, v, u)})
    IN  {v \in S : \A w \in S : conn(w) <= conn(v)}

RECURSIVE BuildLoopAnySort(_, _, _, _)
\* The while loop of buildCliqueFromSubset, lines 217-246, on the vertices
\* of S in any order the degree sort of lines 289-291 may have given them:
\* the cliques it can return.  best_node is the first vertex with the most
\* connections, and the sort can put first any of those of largest degree;
\* a vertex picked leaves the candidates, so the picks of one run never
\* contradict each other.
BuildLoopAnySort(g, kk, S, clique) ==
    IF S = {} \/ ~(Len(clique) < kk)
    THEN {clique}
    ELSE LET ties == MostConnections(g, S)
             first == {v \in ties : \A w \in ties : getDegree(g, w) <= getDegree(g, v)}
         IN  UNION {BuildLoopAnySort(g, kk,
                                     {v \in S : v # best_node /\ hasEdge(g, best_node, v)},
                                     Append(clique, best_node)) : best_node \in first}

\* solve(), lines 283-294, with the sorted vector not written out: the
\* fallback over all nodes in any order the sort may give.
GreedyFallbackAnySort ==
    /\ pc = "fallback"
    /\ IF Len(greedy_clique) < k
       THEN greedy_clique' \in BuildLoopAnySort(graph, k, Vertices(getNodes(graph)), <<>>)
       ELSE UNCHANGED greedy_clique
    /\ pc' = "result2"
    /\ UNCHANGED <<greedyFrame, colors, class_hit, result2>>

\* solve(), lines 299-306: the result is built.
GreedyResult ==
    /\ pc = "result2"
    /\ result2' = [returned |-> TRUE, clique |-> greedy_clique,
                   found |-> (Len(greedy_clique) >= k /\ isClique(graph, greedy_clique)),
                   nodes_explored |-> 0]
    /\ pc' = "done"
    /\ UNCHANGED <<greedyFrame, colors, greedy_clique, class_hit>>

(***************************************************************************)
(* main() of k_clique_solver.cpp, lines 672-684: the exact solver, then    *)
(* the greedy solver, on the same Graph and k.                             *)
(***************************************************************************)

SolveInit ==
    /\ \E nodes \in 0 .. MaxN : \E E \in SUBSET EdgePairs(nodes) :
          graph = BuildGraph(nodes, E)
    /\ hist = NoCall
    /\ k \in Targets
    /\ pc = "exact"
    /\ ExactConstructed
    /\ GreedyConstructed
    /\ OptUnused
    /\ TabuUnused
    /\ DecUnused

SolveNext ==
    \/ ExactSolve
    \/ ExactEnter
    \/ ExactLoop
    \/ ExactReturn
    \/ ExactFinish
    \/ GreedyColoring
    \/ GreedyClasses
    \/ GreedyFallback
    \/ GreedyResult

SpecSolve == SolveInit /\ [][SolveNext]_vars


(***************************************************************************)
(* The input files of kclique.cpp and maximum_clique.cpp: "n m" and then   *)
(* m distinct edges u < v in ascending order, as test_generator.cpp        *)
(* writes them from its set<pair<int,int>>.                                *)
(***************************************************************************)

RECURSIVE LexSeq(_)
\* The pairs of E in the order of set<pair<int,int>>.
LexSeq(E) ==
    IF E = {}
    THEN <<>>
    ELSE LET m == CHOOSE e \in E : \A f \in E \ {e} :
                      e[1] < f[1] \/ (e[1] = f[1] /\ e[2] < f[2])
         IN  <<m>> \o LexSeq(E \ {m})

Inputs ==
    UNION {{[n |-> nodes, edges |-> LexSeq(E)] : E \in SUBSET EdgePairs(nodes)} :
              nodes \in 0 .. MaxN}

(***************************************************************************)
(* kclique.cpp: struct Graph, readGraph, expand, solve_exact               *)
(***************************************************************************)

RECURSIVE readEdges(_, _, _)
\* The loop of readGraph, lines 30-38.
readEdges(g, edges, idx) ==
    IF idx > Len(edges)
    THEN g
    ELSE LET u == edges[idx][1]
             v == edges[idx][2]
         IN  IF u < g.n /\ v < g.n
             THEN readEdges(
                      [g EXCEPT !.adjMat[u][v] = TRUE, !.adjMat[v][u] = TRUE,
                                !.degrees[u] = @ + 1, !.degrees[v] = @ + 1],
                      edges, idx + 1)
             ELSE readEdges(g, edges, idx + 1)

\* Graph readGraph(filename), lines 21-40.
readGraph(in) ==
    readEdges([ n       |-> in.n,
                m       |-> Len(in.edges),
                adjMat  |-> [u \in Vertices(in.n) |-> [v \in Vertices(in.n) |-> FALSE]],
                degrees |-> [u \in Vertices(in.n) |-> 0] ],
              in.edges, 1)

\* The vector 0, 1, ..., n-1.
Iota(n) == [j \in 1 .. n |-> j - 1]

Last(seq) == seq[Len(seq)]

\* A search node as the claims see it: the partial clique and the candidate
\* vector on entry to a call, and the same vector when the call returns.
SearchNode(clique, candidates, after) ==
    [clique |-> clique, candidates |-> candidates, after |-> after]

RECURSIVE expand(_, _, _, _)
RECURSIVE expandLoop(_, _, _, _)
\* The while loop of expand, lines 55-70; candidates is a reference, so the
\* vector the caller passed is left as the loop leaves it.  nodes collects
\* the search nodes of the recursive calls.
expandLoop(g, candidates, clique, max_size) ==
    IF Len(candidates) = 0
    THEN [candidates |-> candidates, max_size |-> max_size, nodes |-> {}]
    ELSE LET v == Last(candidates)
             rest == Pop(candidates)
             Adj(u) == g.adjMat[v][u]
             new_candidates == SelectSeq(rest, Adj)
             r == expand(g, new_candidates, Append(clique, v), max_size)
             l == expandLoop(g, rest, clique, r.max_size)
         IN  [l EXCEPT !.nodes = @ \cup r.nodes]

\* void expand(g, candidates, current_clique, max_size), lines 44-71:
\* [candidates, max_size] as the call leaves its two output references, and
\* the search nodes of the call and of the calls below it.
expand(g, candidates, clique, max_size) ==
    IF Len(candidates) = 0
    THEN [candidates |-> candidates,
          max_size |-> IF Len(clique) > max_size THEN Len(clique) ELSE max_size,
          nodes |-> {SearchNode(clique, candidates, candidates)}]
    ELSE IF Len(clique) + Len(candidates) <= max_size
    THEN [candidates |-> candidates, max_size |-> max_size,
          nodes |-> {SearchNode(clique, candidates, candidates)}]
    ELSE LET r == expandLoop(g, candidates, clique, max_size)
         IN  [r EXCEPT !.nodes = @ \cup {SearchNode(clique, candidates, r.candidates)}]

\* int solve_exact(g), lines 73-81.
solve_exact(g) == expand(g, Iota(g.n), <<>>, 0).max_size

(***************************************************************************)
(* maximum_clique.cpp: class Graph, ExactBacktracking, BranchAndBound      *)
(***************************************************************************)

\* Graph(int nodes), lines 20-23.
McGraph(nodes) ==
    [ n      |-> nodes,
      m      |-> 0,
      adj    |-> [u \in Vertices(nodes) |-> <<>>],
      adjSet |-> [u \in Vertices(nodes) |-> {}] ]

\* void addEdge(int u, int v), lines 25-31.
mcAddEdge(g, u, v) ==
    LET a1 == [g.adj EXCEPT ![u] = Append(@, v)]
        a2 == [a1 EXCEPT ![v] = Append(@, u)]
        s1 == [g.adjSet EXCEPT ![u] = @ \cup {v}]
        s2 == [s1 EXCEPT ![v] = @ \cup {u}]
    IN  [g EXCEPT !.adj = a2, !.adjSet = s2, !.m = @ + 1]

areAdjacent(g, u, v) == v \in g.adjSet[u]

\* int getDegree(int u) const { return adj[u].size(); }
mcGetDegree(g, u) == Len(g.adj[u])

RECURSIVE mcReadEdges(_, _, _)
\* main(), lines 310-314.
mcReadEdges(g, edges, idx) ==
    IF idx > Len(edges)
    THEN g
    ELSE mcReadEdges(mcAddEdge(g, edges[idx][1], edges[idx][2]), edges, idx + 1)

\* main(), lines 305-314.
mcReadGraph(in) == mcReadEdges(McGraph(in.n), in.edges, 1)

\* ExactBacktracking::isClique(u) and BranchAndBound::isClique(u): u is
\* adjacent to every vertex of currentClique.
isCliqueWith(g, currentClique, u) ==
    \A j \in 1 .. Len(currentClique) : areAdjacent(g, u, currentClique[j])

RECURSIVE backtrack(_, _, _)
RECURSIVE backtrackLoop(_, _, _)
\* The loop of ExactBacktracking::backtrack, lines 76-82.
backtrackLoop(g, obj, u) ==
    IF u >= g.n
    THEN obj
    ELSE IF isCliqueWith(g, obj.currentClique, u)
    THEN LET pushed == [obj EXCEPT !.currentClique = Append(@, u)]
             r == backtrack(g, pushed, u + 1)
             popped == [r EXCEPT !.currentClique = Pop(@)]
         IN  backtrackLoop(g, popped, u + 1)
    ELSE backtrackLoop(g, obj, u + 1)

\* void ExactBacktracking::backtrack(int start), lines 64-83, on the object
\* obj = [bestClique, currentClique].
backtrack(g, obj, start) ==
    LET o1 == IF Len(obj.currentClique) > Len(obj.bestClique)
              THEN [obj EXCEPT !.bestClique = obj.currentClique]
              ELSE obj
    IN  IF Len(o1.currentClique) + (g.n - start) <= Len(o1.bestClique)
        THEN o1
        ELSE backtrackLoop(g, o1, start)

\* vector<int> ExactBacktracking::findMaxClique(), lines 88-93: the object
\* after the call; the value returned is its bestClique.
exactFindMaxClique(g, obj) ==
    backtrack(g, [obj EXCEPT !.bestClique = <<>>, !.currentClique = <<>>], 0)

\* int upperBound(candidates), lines 190-192.
upperBound(candidates) == Len(candidates)

RECURSIVE branchAndBound(_, _, _)
RECURSIVE branchLoop(_, _, _)
\* The loop of branchAndBound with the bound taken without the popped u.
branchLoopTightBound(g, obj, candidates) ==
    IF Len(candidates) = 0
    THEN [obj |-> obj, candidates |-> candidates, nodes |-> {}, commits |-> <<>>]
    ELSE LET u == Last(candidates)
             rest == Pop(candidates)
         IN  IF Len(obj.currentClique) + Len(rest) <= Len(obj.bestClique)
             THEN [obj |-> obj, candidates |-> rest, nodes |-> {}, commits |-> <<>>]
             ELSE IF isCliqueWith(g, obj.currentClique, u)
             THEN LET Adj(v) == areAdjacent(g, u, v)
                      newCandidates == SelectSeq(rest, Adj)
                      pushed == [obj EXCEPT !.currentClique = Append(@, u)]
                      r == branchAndBound(g, pushed, newCandidates)
                      popped == [r.obj EXCEPT !.currentClique = Pop(@)]
                      l == branchLoop(g, popped, rest)
                  IN  [l EXCEPT !.nodes = @ \cup r.nodes, !.commits = <<u>> \o @]
             ELSE branchLoop(g, obj, rest)

\* The loop of branchAndBound taking its vertex from the front of the
\* vector instead of the back.
branchLoopFromFront(g, obj, candidates) ==
    IF Len(candidates) = 0
    THEN [obj |-> obj, candidates |-> candidates, nodes |-> {}, commits |-> <<>>]
    ELSE LET u == Head(candidates)
             rest == Tail(candidates)
         IN  IF Len(obj.currentClique) + Len(rest) + 1 <= Len(obj.bestClique)
             THEN [obj |-> obj, candidates |-> rest, nodes |-> {}, commits |-> <<>>]
             ELSE IF isCliqueWith(g, obj.currentClique, u)
             THEN LET Adj(v) == areAdjacent(g, u, v)
                      newCandidates == SelectSeq(rest, Adj)
                      pushed == [obj EXCEPT !.currentClique = Append(@, u)]
                      r == branchAndBound(g, pushed, newCandidates)
                      popped == [r.obj EXCEPT !.currentClique = Pop(@)]
                      l == branchLoop(g, popped, rest)
                  IN  [l EXCEPT !.nodes = @ \cup r.nodes, !.commits = <<u>> \o @]
             ELSE branchLoop(g, obj, rest)

\* The while loop of branchAndBound, lines 207-230; candidates is a
\* reference, so the caller's vector is left as the loop leaves it.
\* commits lists the vertices this loop pushed on currentClique, in order.
branchLoop(g, obj, candidates) ==
    IF Len(candidates) = 0
    THEN [obj |-> obj, candidates |-> candidates, nodes |-> {}, commits |-> <<>>]
    ELSE LET u == Last(candidates)
             rest == Pop(candidates)
         IN  IF Len(obj.currentClique) + Len(rest) + 1 <= Len(obj.bestClique)
             THEN [obj |-> obj, candidates |-> rest, nodes |-> {}, commits |-> <<>>]
             ELSE IF isCliqueWith(g, obj.currentClique, u)
             THEN LET Adj(v) == areAdjacent(g, u, v)
                      newCandidates == SelectSeq(rest, Adj)
                      pushed == [obj EXCEPT !.currentClique = Append(@, u)]
                      r == branchAndBound(g, pushed, newCandidates)
                      popped == [r.obj EXCEPT !.currentClique = Pop(@)]
                      l == branchLoop(g, popped, rest)
                  IN  [l EXCEPT !.nodes = @ \cup r.nodes, !.commits = <<u>> \o @]
             ELSE branchLoop(g, obj, rest)

\* void BranchAndBound::branchAndBound(vector<int>& candidates), lines
\* 194-231, on obj = [bestClique, currentClique, order]: the object and the
\* candidates vector as the call leaves them, and the search nodes of the
\* call and of the calls below it.
branchAndBound(g, obj, candidates) ==
    LET o1 == IF Len(obj.currentClique) > Len(obj.bestClique)
              THEN [obj EXCEPT !.bestClique = obj.currentClique]
              ELSE obj
        here == SearchNode(obj.currentClique, candidates, candidates)
    IN  IF Len(candidates) = 0
        THEN [obj |-> o1, candidates |-> candidates, nodes |-> {here}, commits |-> <<>>]
        ELSE IF Len(o1.currentClique) + upperBound(candidates) <= Len(o1.bestClique)
        THEN [obj |-> o1, candidates |-> candidates, nodes |-> {here}, commits |-> <<>>]
        ELSE LET r == branchLoop(g, o1, candidates)
             IN  [r EXCEPT !.nodes =
                      @ \cup {SearchNode(obj.currentClique, candidates, r.candidates)}]

\* vector<int> BranchAndBound::findMaxClique(), lines 245-250: the object
\* after the call.  branchAndBound is handed the member order itself, so
\* what the search does to its candidates is done to order.
bnbSearch(g, obj) ==
    LET cleared == [obj EXCEPT !.bestClique = <<>>, !.currentClique = <<>>]
    IN  branchAndBound(g, cleared, cleared.order)

bnbFindMaxClique(g, obj) ==
    LET r == bnbSearch(g, obj)
    IN  [r.obj EXCEPT !.order = r.candidates]

RECURSIVE mcDegreeOrders(_, _)
\* The results sort() may give for the comparator of lines 240-242: every
\* order of S with non-increasing degree.
mcDegreeOrders(g, S) ==
    IF S = {}
    THEN {<<>>}
    ELSE LET top == {v \in S : \A w \in S : mcGetDegree(g, w) <= mcGetDegree(g, v)}
         IN  UNION {{<<v>> \o t : t \in mcDegreeOrders(g, S \ {v})} : v \in top}

(***************************************************************************)
(* The runs of the two maximum-clique programs on one input file.          *)
(***************************************************************************)

OptInit ==
    /\ graph = Graph(0)
    /\ hist = NoCall
    /\ k = 0
    /\ ExactConstructed
    /\ GreedyConstructed
    /\ TabuUnused
    /\ DecUnused
    /\ input \in Inputs
    /\ kc_graph = readGraph(input)
    /\ res_exact = <<>>
    /\ kc_nodes = <<>>
    /\ mc_graph = mcReadGraph(input)
    /\ exact = [bestClique |-> <<>>, currentClique |-> <<>>]
    /\ exactClique = <<>>
    /\ bnb = [bestClique |-> <<>>, currentClique |-> <<>>, order |-> <<>>]
    /\ bnbClique = <<>>
    /\ bnb_nodes = <<>>
    /\ bnb_commits = <<>>
    /\ kc_heur = NoHeur
    /\ pc = "kc_exact"

\* kclique.cpp main(), line 152.
KcSolveExact ==
    /\ pc = "kc_exact"
    /\ res_exact' = Append(res_exact, solve_exact(kc_graph))
    /\ kc_nodes' = Append(kc_nodes, expand(kc_graph, Iota(kc_graph.n), <<>>, 0).nodes)
    /\ pc' = "mc_exact"
    /\ UNCHANGED <<optFrame, input, kc_graph, mc_graph, exact, exactClique, bnb,
                   bnbClique, bnb_nodes,
                   bnb_commits, kc_heur>>

\* maximum_clique.cpp main(), lines 325-326: exact.findMaxClique().
McExactFind ==
    /\ pc = "mc_exact"
    /\ exact' = exactFindMaxClique(mc_graph, exact)
    /\ exactClique' = Append(exactClique, exact'.bestClique)
    /\ pc' = IF Len(exactClique) + 1 < MaxCalls THEN "mc_exact" ELSE "bnb_new"
    /\ UNCHANGED <<optFrame, input, kc_graph, res_exact, kc_nodes, mc_graph, bnb,
                   bnbClique, bnb_nodes,
                   bnb_commits, kc_heur>>

\* BranchAndBound::BranchAndBound(graph), lines 234-243.
BnbConstruct ==
    /\ pc = "bnb_new"
    /\ \E sorted \in mcDegreeOrders(mc_graph, Vertices(mc_graph.n)) :
          bnb' = [bestClique |-> <<>>, currentClique |-> <<>>, order |-> sorted]
    /\ pc' = "bnb_find"
    /\ UNCHANGED <<optFrame, input, kc_graph, res_exact, kc_nodes, mc_graph, exact,
                   exactClique, bnbClique, bnb_nodes,
                   bnb_commits, kc_heur>>

\* maximum_clique.cpp main(), line 357: bnb.findMaxClique().
BnbFind ==
    /\ pc = "bnb_find"
    /\ bnb' = bnbFindMaxClique(mc_graph, bnb)
    /\ bnbClique' = Append(bnbClique, bnb'.bestClique)
    /\ bnb_nodes' = Append(bnb_nodes, bnbSearch(mc_graph, bnb).nodes)
    /\ bnb_commits' = Append(bnb_commits, bnbSearch(mc_graph, bnb).commits)
    /\ UNCHANGED kc_heur
    /\ pc' = IF Len(bnbClique) + 1 < MaxCalls THEN "bnb_find" ELSE "opt_done"
    /\ UNCHANGED <<optFrame, input, kc_graph, res_exact, kc_nodes, mc_graph, exact,
                   exactClique>>

OptNext ==
    \/ KcSolveExact
    \/ McExactFind
    \/ BnbConstruct
    \/ BnbFind

SpecOpt == OptInit /\ [][OptNext]_vars

(***************************************************************************)
(* kclique.cpp: solve_greedy_degree, solve_randomized, and the run of      *)
(* main() through the three solvers.                                       *)
(***************************************************************************)

RECURSIVE greedyBuildNoCheck(_, _, _, _)
\* The greedy loop with can_add left true: every node is pushed.
greedyBuildNoCheck(g, nodes, idx, clique) ==
    IF idx > Len(nodes)
    THEN clique
    ELSE greedyBuildNoCheck(g, nodes, idx + 1, Append(clique, nodes[idx]))

RECURSIVE greedyBuild(_, _, _, _)
\* The loop "for (int u : nodes)" of solve_greedy_degree, lines 95-104, and
\* of solve_randomized, lines 123-132: u is pushed when it is adjacent to
\* every vertex of the clique.
greedyBuild(g, nodes, idx, clique) ==
    IF idx > Len(nodes)
    THEN clique
    ELSE LET u == nodes[idx]
             can_add == \A j \in 1 .. Len(clique) : g.adjMat[u][clique[j]]
         IN  greedyBuild(g, nodes, idx + 1, IF can_add THEN Append(clique, u) ELSE clique)

RECURSIVE kcDegreeOrders(_, _)
\* The results sort() may give for the comparator of lines 90-92: every
\* order of S with non-increasing degree.
kcDegreeOrders(g, S) ==
    IF S = {}
    THEN {<<>>}
    ELSE LET top == {v \in S : \A w \in S : g.degrees[w] <= g.degrees[v]}
         IN  UNION {{<<v>> \o t : t \in kcDegreeOrders(g, S \ {v})} : v \in top}

\* int solve_greedy_degree(g), lines 85-106: the values it may return.
solve_greedy_degree(g) ==
    {Len(greedyBuild(g, nodes, 1, <<>>)) : nodes \in kcDegreeOrders(g, Vertices(g.n))}

RECURSIVE Shuffles(_)
\* What shuffle() may leave in nodes, line 121: any order of the vertices.
Shuffles(S) ==
    IF S = {}
    THEN {<<>>}
    ELSE UNION {{<<v>> \o t : t \in Shuffles(S \ {v})} : v \in S}

\* main() of kclique.cpp has read a graph with n >= 1, lines 144-145, and
\* solve_randomized will be called with iters iterations.
HeurInit ==
    /\ graph = Graph(0)
    /\ hist = NoCall
    /\ k = 0
    /\ ExactConstructed
    /\ GreedyConstructed
    /\ TabuUnused
    /\ DecUnused
    /\ input \in Inputs
    /\ input.n >= 1
    /\ kc_graph = readGraph(input)
    /\ res_exact = <<>>
    /\ kc_nodes = <<>>
    /\ mc_graph = [n |-> 0, m |-> 0, adj |-> <<>>, adjSet |-> <<>>]
    /\ exact = [bestClique |-> <<>>, currentClique |-> <<>>]
    /\ exactClique = <<>>
    /\ bnb = [bestClique |-> <<>>, currentClique |-> <<>>, order |-> <<>>]
    /\ bnbClique = <<>>
    /\ bnb_nodes = <<>>
    /\ bnb_commits = <<>>
    /\ \E iters \in 1 .. MaxShuffles : kc_heur = [NoHeur EXCEPT !.iters = iters]
    /\ pc = "heur_exact"

\* main(), line 152: res_exact = solve_exact(g).
KcExact ==
    /\ pc = "heur_exact"
    /\ res_exact' = Append(res_exact, solve_exact(kc_graph))
    /\ pc' = "heur_greedy"
    /\ UNCHANGED <<optFrame, input, kc_graph, kc_nodes, mc_graph, exact, exactClique, bnb,
                   bnbClique, bnb_nodes, bnb_commits, kc_heur>>

\* main(), line 159: res_greedy = solve_greedy_degree(g).
KcGreedyDegree ==
    /\ pc = "heur_greedy"
    /\ \E size \in solve_greedy_degree(kc_graph) :
          kc_heur' = [kc_heur EXCEPT !.res_greedy = size]
    /\ pc' = "heur_rand"
    /\ UNCHANGED <<optFrame, input, kc_graph, res_exact, kc_nodes, mc_graph, exact,
                   exactClique, bnb, bnbClique, bnb_nodes, bnb_commits>>

\* One pass of the loop of solve_randomized, lines 120-134: shuffle, build
\* a clique, keep the larger size.
KcShuffle ==
    /\ pc = "heur_rand"
    /\ kc_heur.k < kc_heur.iters
    /\ \E nodes \in Shuffles(Vertices(kc_graph.n)) :
          LET clique == greedyBuild(kc_graph, nodes, 1, <<>>)
          IN  kc_heur' = [kc_heur EXCEPT
                             !.best_size = IF Len(clique) > @ THEN Len(clique) ELSE @,
                             !.k = @ + 1]
    /\ UNCHANGED <<optFrame, pc, input, kc_graph, res_exact, kc_nodes, mc_graph, exact,
                   exactClique, bnb, bnbClique, bnb_nodes, bnb_commits>>

\* The loop of solve_randomized ends and best_size is returned, line 135;
\* main(), line 166.
KcRandomized ==
    /\ pc = "heur_rand"
    /\ ~(kc_heur.k < kc_heur.iters)
    /\ kc_heur' = [kc_heur EXCEPT !.res_rand = kc_heur.best_size]
    /\ pc' = "heur_done"
    /\ UNCHANGED <<optFrame, input, kc_graph, res_exact, kc_nodes, mc_graph, exact,
                   exactClique, bnb, bnbClique, bnb_nodes, bnb_commits>>

HeurNext ==
    \/ KcExact
    \/ KcGreedyDegree
    \/ KcShuffle
    \/ KcRandomized

SpecHeur == HeurInit /\ [][HeurNext]_vars


(***************************************************************************)
(* class TabuSearchSolver (k_clique_solver.cpp)                            *)
(***************************************************************************)

\* start_node of initialSolution, lines 323-330: the first vertex of the
\* largest degree (the update is on strictly more).
StartNode(g) ==
    CHOOSE v \in Vertices(getNodes(g)) :
        /\ \A w \in Vertices(getNodes(g)) : getDegree(g, w) <= getDegree(g, v)
        /\ \A w \in 0 .. (v - 1) : getDegree(g, w) < getDegree(g, v)

\* int conn of lines 343-346.
ConnTo(g, clique, v) ==
    Cardinality({j \in 1 .. Len(clique) : hasEdge(g, v, clique[j])})

\* best of lines 339-351: the first candidate with the most connections.
MostConnected(g, candidates, clique) ==
    LET first == CHOOSE j \in 1 .. Len(candidates) :
            /\ \A i \in 1 .. Len(candidates) :
                  ConnTo(g, clique, candidates[i]) <= ConnTo(g, clique, candidates[j])
            /\ \A i \in 1 .. (j - 1) :
                  ConnTo(g, clique, candidates[i]) < ConnTo(g, clique, candidates[j])
    IN  candidates[first]

RECURSIVE InitialLoop(_, _, _, _)
\* The while loop of initialSolution, lines 338-371.
InitialLoop(g, kk, candidates, clique) ==
    IF Len(candidates) = 0 \/ ~(Len(clique) < kk)
    THEN clique
    ELSE LET best == MostConnected(g, candidates, clique)
             max_conn == ConnTo(g, clique, best)
         IN  IF max_conn < Len(clique)
             THEN clique
             ELSE LET grown == Append(clique, best)
                      Keep(v) == /\ v # best
                                 /\ hasEdge(g, best, v)
                                 /\ \A j \in 1 .. Len(grown) : hasEdge(g, v, grown[j])
                  IN  InitialLoop(g, kk, SelectSeq(candidates, Keep), grown)

\* vector<int> initialSolution(), lines 319-374; the neighbours of the
\* start node are taken in the ascending order of set<int>.
initialSolution(g, kk) ==
    LET start_node == StartNode(g)
    IN  InitialLoop(g, kk, AscendingSeq(getNeighbors(g, start_node)), <<start_node>>)

\* vector<int> findCandidates(clique), lines 376-397: in ascending order,
\* the vertices outside the clique that are adjacent to all of it.
findCandidates(g, clique) ==
    AscendingSeq({v \in Vertices(getNodes(g)) :
        /\ v \notin Range(clique)
        /\ \A j \in 1 .. Len(clique) : hasEdge(g, v, clique[j])})

\* The tabu test with the aspiration test left out of it: never skip.
SkippedNever(tabu, iter, v, cur, best) == FALSE

\* The tabu test without the aspiration test of line 427.
SkippedNoAspiration(tabu, iter, v, cur, best) ==
    v \in DOMAIN tabu /\ tabu[v] > iter

\* Lines 426-430: candidate v is passed over: it is in the tabu map with an
\* entry above the iteration, and adding it would not beat best.
Skipped(tabu, iter, v, cur, best) ==
    /\ v \in DOMAIN tabu
    /\ tabu[v] > iter
    /\ Len(cur) + 1 <= Len(best)

\* best_candidate of lines 422-437: the first candidate not passed over
\* with the largest degree, or -1.
BestCandidate(g, candidates, tabu, iter, cur, best) ==
    LET allowed == {j \in 1 .. Len(candidates) :
                       ~Skipped(tabu, iter, candidates[j], cur, best)}
    IN  IF allowed = {}
        THEN 0 - 1
        ELSE LET first == CHOOSE j \in allowed :
                     /\ \A i \in allowed :
                           getDegree(g, candidates[i]) <= getDegree(g, candidates[j])
                     /\ \A i \in allowed :
                           i < j => getDegree(g, candidates[i]) < getDegree(g, candidates[j])
             IN  candidates[first]

\* The update of best on any move.
UpdateBestAlways(cur, best) == cur

\* Lines 442-444: best_solution = current_solution on strictly larger.
UpdateBest(cur, best) == IF Len(cur) > Len(best) THEN cur ELSE best

\* tabu_list[key] = val
MapPut(map, key, val) ==
    [x \in DOMAIN map \cup {key} |-> IF x = key THEN val ELSE map[x]]

\* vector::erase(begin() + idx), idx counted from 0.
EraseAt(seq, idx) == SubSeq(seq, 1, idx) \o SubSeq(seq, idx + 2, Len(seq))

\* The purge with the test it->second < iterations.
PurgeStrict(map, iter) ==
    IF iter % PurgePeriod = 0
    THEN [x \in {y \in DOMAIN map : ~(map[y] < iter)} |-> map[x]]
    ELSE map

\* The restart with the test current.size() < best.size().
RestartBelowBest(cur, best) ==
    IF Len(cur) < Len(best) THEN best ELSE cur

\* Lines 457-459: current after the erase; it is reset to best when it has
\* fewer than best.size() / 2 vertices.
Restart(cur, best) ==
    IF Len(cur) < Len(best) \div 2 THEN best ELSE cur

\* Lines 462-470: every PurgePeriod iterations the entries <= iteration go.
Purge(map, iter) ==
    IF iter % PurgePeriod = 0
    THEN [x \in {y \in DOMAIN map : ~(map[y] <= iter)} |-> map[x]]
    ELSE map

\* The tenures the solver is constructed with.
Tenures == (0 .. MaxTenure) \cup {DefaultTenure}

\* The iteration budgets the solver is constructed with.
Budgets == {0, 1, MaxIter}

\* The house graph: the square 0-1-2-3 with the roof 4 on the side 0-3.
\* Its triangle {0, 3, 4} is reached only through the maximal edge {0, 1}.
HouseGraph ==
    BuildGraph(5, {<<0, 1>>, <<1, 2>>, <<2, 3>>, <<0, 3>>, <<3, 4>>, <<0, 4>>})

\* The graphs the tabu search is run on: every graph on 1 .. TabuN
\* vertices, and the house graph.
TabuGraphs ==
    UNION {{BuildGraph(nodes, E) : E \in SUBSET EdgePairs(nodes)} : nodes \in 1 .. TabuN}
        \cup {HouseGraph}

\* TabuSearchSolver(g, k, max_iter, tenure) on a graph of main(): n >= 1.
TabuInit ==
    /\ graph \in TabuGraphs
    /\ hist = NoCall
    /\ k \in 0 .. (TabuN + 1)
    /\ ExactConstructed
    /\ GreedyConstructed
    /\ OptUnused
    /\ DecUnused
    /\ max_iterations \in Budgets
    /\ tabu_tenure \in Tenures
    /\ TabuLocalsFresh
    /\ pc = "tabu"

\* The loop test without the iteration budget.
LoopTestNoBudget(iter, max_iter, best, kk) == Len(best) < kk

\* The test of the while loop, line 416.
LoopTest(iter, max_iter, best, kk) == iter < max_iter /\ Len(best) < kk

\* solve(), lines 409-414.
TabuStart ==
    /\ pc = "tabu"
    /\ current_solution' = initialSolution(graph, k)
    /\ best_solution' = current_solution'
    /\ tabu_list' = <<>>
    /\ iterations' = 0
    /\ removed_at' = [v \in Vertices(getNodes(graph)) |-> {}]
    /\ pc' = "tabu_loop"
    /\ UNCHANGED <<tabuFrame, result3>>

\* One pass of the while loop of solve(), lines 416-471: the add move, the
\* remove move with its restart, or the re-seeding, and then the purge.
TabuIterate ==
    /\ pc = "tabu_loop"
    /\ LoopTest(iterations, max_iterations, best_solution, k)
    /\ iterations' = iterations + 1
    /\ LET candidates == findCandidates(graph, current_solution)
       IN  IF Len(candidates) # 0
           THEN LET best_candidate ==
                        BestCandidate(graph, candidates, tabu_list, iterations',
                                      current_solution, best_solution)
                IN  /\ IF best_candidate # 0 - 1
                       THEN /\ current_solution' = Append(current_solution, best_candidate)
                            /\ best_solution' = UpdateBest(current_solution', best_solution)
                       ELSE UNCHANGED <<current_solution, best_solution>>
                    /\ tabu_list' = Purge(tabu_list, iterations')
                    /\ UNCHANGED removed_at
           ELSE IF Len(current_solution) # 0
           THEN \E remove_idx \in 0 .. (Len(current_solution) - 1) :
                   LET removed == current_solution[remove_idx + 1]
                       erased == EraseAt(current_solution, remove_idx)
                   IN  /\ current_solution' = Restart(erased, best_solution)
                       /\ tabu_list' = Purge(MapPut(tabu_list, removed,
                                                    iterations' + tabu_tenure),
                                             iterations')
                       /\ removed_at' = [removed_at EXCEPT ![removed] = @ \cup {iterations'}]
                       /\ UNCHANGED best_solution
           ELSE /\ current_solution' = initialSolution(graph, k)
                /\ tabu_list' = Purge(tabu_list, iterations')
                /\ UNCHANGED <<best_solution, removed_at>>
    /\ UNCHANGED <<tabuFrame, pc, result3>>

\* The loop test fails and solve() builds its result, lines 473-483.
TabuFinish ==
    /\ pc = "tabu_loop"
    /\ ~LoopTest(iterations, max_iterations, best_solution, k)
    /\ result3' = [returned |-> TRUE, clique |-> best_solution,
                   found |-> (Len(best_solution) >= k /\ isClique(graph, best_solution)),
                   nodes_explored |-> iterations]
    /\ pc' = "tabu_done"
    /\ UNCHANGED <<tabuFrame, current_solution, best_solution, tabu_list,
                   iterations, removed_at>>

TabuNext ==
    \/ TabuStart
    \/ TabuIterate
    \/ TabuFinish

SpecTabu == TabuInit /\ [][TabuNext]_vars

\* Long runs of the tabu search: graphs without edges, on which no target
\* k >= 2 is reached and the run lasts for its whole budget.
PurgeGraphs == {BuildGraph(nodes, {}) : nodes \in 1 .. PurgeN}

PurgeInit ==
    /\ graph \in PurgeGraphs
    /\ hist = NoCall
    /\ k \in {2, 3}
    /\ ExactConstructed
    /\ GreedyConstructed
    /\ OptUnused
    /\ DecUnused
    /\ max_iterations \in {PurgePeriod, PurgeBudget}
    /\ tabu_tenure \in Tenures
    /\ TabuLocalsFresh
    /\ pc = "tabu"

SpecPurge == PurgeInit /\ [][TabuNext]_vars

(***************************************************************************)
(* src/kclique.cpp: struct Graph, solve_backtracking, solve_smart, main    *)
(***************************************************************************)

RECURSIVE dgReadEdges(_, _, _)
\* The edge lines of the input, main() lines 126-130 and 138-145: an edge with both
\* ends below n is entered in the matrix and counted in both degrees.
dgReadEdges(g, edges, idx) ==
    IF idx > Len(edges)
    THEN g
    ELSE LET u == edges[idx][1]
             v == edges[idx][2]
         IN  IF u < g.n /\ v < g.n
             THEN dgReadEdges(
                      [g EXCEPT !.adjMat[u][v] = TRUE, !.adjMat[v][u] = TRUE,
                                !.degree[u] = @ + 1, !.degree[v] = @ + 1],
                      edges, idx + 1)
             ELSE dgReadEdges(g, edges, idx + 1)

\* The parse of main(), lines 99-146, of a file with the header n_nodes = n,
\* k = kk and the given edge lines.  adjMat and degree are sized when the
\* first edge line is read (lines 119-125); a file with no edge line leaves
\* both vectors empty.
parseGraph(in, kk) ==
    IF Len(in.edges) = 0
    THEN [n |-> in.n, k |-> kk, loaded |-> FALSE, adjMat |-> <<>>, degree |-> <<>>]
    ELSE dgReadEdges([ n      |-> in.n,
                       k      |-> kk,
                       loaded |-> TRUE,
                       adjMat |-> [u \in Vertices(in.n) |-> [v \in Vertices(in.n) |-> FALSE]],
                       degree |-> [u \in Vertices(in.n) |-> 0] ],
                     in.edges, 1)

\* g.adjMat[u][v].  On vectors that were never sized the read is out of
\* bounds; the searches note every read in "touched", and main() below
\* turns a touched search on such a graph into the crash of the program.
dgAdj(g, u, v) == g.loaded /\ g.adjMat[u][v]

RECURSIVE solve_backtracking(_, _, _)
RECURSIVE backtrackingLoop(_, _, _)
\* The loop of solve_backtracking, lines 34-50.
backtrackingLoop(g, current_clique0, i) ==
    IF i >= g.n
    THEN [found |-> FALSE, clique |-> current_clique0, touched |-> FALSE]
    ELSE LET connected ==
                 \A j \in 1 .. Len(current_clique0) : dgAdj(g, i, current_clique0[j])
             t == Len(current_clique0) > 0
         IN  IF connected
             THEN LET r == solve_backtracking(g, Append(current_clique0, i), i + 1)
                  IN  IF r.found
                      THEN [r EXCEPT !.touched = @ \/ t]
                      ELSE LET l == backtrackingLoop(g, Pop(r.clique), i + 1)
                           IN  [l EXCEPT !.touched = @ \/ t \/ r.touched]
             ELSE LET l == backtrackingLoop(g, current_clique0, i + 1)
                  IN  [l EXCEPT !.touched = TRUE]

\* bool solve_backtracking(g, current_clique, start_node), lines 31-51: the
\* value returned and current_clique as the call leaves it.
solve_backtracking(g, current_clique0, start_node) ==
    IF Len(current_clique0) = g.k
    THEN [found |-> TRUE, clique |-> current_clique0, touched |-> FALSE]
    ELSE backtrackingLoop(g, current_clique0, start_node)

RECURSIVE solve_smart(_, _, _)
RECURSIVE smartLoop(_, _, _, _)
\* The loop of solve_smart without the pop_back of line 84.
smartLoopNoPop(g, current_clique0, candidates, i) ==
    LET fail == [found |-> FALSE, clique |-> current_clique0, touched |-> FALSE,
                 nodes |-> {}]
    IN  IF i >= Len(candidates)
        THEN fail
        ELSE IF Len(current_clique0) + (Len(candidates) - i) < g.k
        THEN fail
        ELSE LET u == candidates[i + 1]
                 Adj(v) == dgAdj(g, u, v)
                 next_candidates == SelectSeq(SubSeq(candidates, i + 2, Len(candidates)), Adj)
                 t == i + 1 < Len(candidates)
             IN  IF Len(current_clique0) + 1 + Len(next_candidates) >= g.k
                 THEN LET r == solve_smart(g, Append(current_clique0, u), next_candidates)
                      IN  IF r.found
                          THEN [r EXCEPT !.touched = @ \/ t]
                          ELSE LET l == smartLoop(g, r.clique, candidates, i + 1)
                               IN  [l EXCEPT !.touched = @ \/ t \/ r.touched,
                                             !.nodes = @ \cup r.nodes]
                 ELSE LET l == smartLoop(g, current_clique0, candidates, i + 1)
                      IN  [l EXCEPT !.touched = @ \/ t]

\* The loop of solve_smart, lines 60-86, from index i on.
smartLoop(g, current_clique0, candidates, i) ==
    LET fail == [found |-> FALSE, clique |-> current_clique0, touched |-> FALSE,
                 nodes |-> {}]
    IN  IF i >= Len(candidates)
        THEN fail
        ELSE IF Len(current_clique0) + (Len(candidates) - i) < g.k
        THEN fail
        ELSE LET u == candidates[i + 1]
                 Adj(v) == dgAdj(g, u, v)
                 next_candidates == SelectSeq(SubSeq(candidates, i + 2, Len(candidates)), Adj)
                 t == i + 1 < Len(candidates)
             IN  IF Len(current_clique0) + 1 + Len(next_candidates) >= g.k
                 THEN LET r == solve_smart(g, Append(current_clique0, u), next_candidates)
                      IN  IF r.found
                          THEN [r EXCEPT !.touched = @ \/ t]
                          ELSE LET l == smartLoop(g, Pop(r.clique), candidates, i + 1)
                               IN  [l EXCEPT !.touched = @ \/ t \/ r.touched,
                                             !.nodes = @ \cup r.nodes]
                 ELSE LET l == smartLoop(g, current_clique0, candidates, i + 1)
                      IN  [l EXCEPT !.touched = @ \/ t]

\* bool solve_smart(g, current_clique, candidates), lines 54-88: the value
\* returned, current_clique as the call leaves it, and the search nodes of
\* the call and of the calls below it (candidates is never written).
solve_smart(g, current_clique0, candidates) ==
    LET here == SearchNode(current_clique0, candidates, candidates)
    IN  IF Len(current_clique0) = g.k
        THEN [found |-> TRUE, clique |-> current_clique0, touched |-> FALSE,
              nodes |-> {here}]
        ELSE IF Len(current_clique0) + Len(candidates) < g.k
        THEN [found |-> FALSE, clique |-> current_clique0, touched |-> FALSE,
              nodes |-> {here}]
        ELSE LET r == smartLoop(g, current_clique0, candidates, 0)
             IN  [r EXCEPT !.nodes = @ \cup {here}]

RECURSIVE dgDegreeOrders(_, _)
\* The results sort() may give for the comparator of lines 170-172: every
\* order of S with non-increasing degree.
dgDegreeOrders(g, S) ==
    IF S = {}
    THEN {<<>>}
    ELSE LET top == {v \in S : \A w \in S : g.degree[w] <= g.degree[v]}
         IN  UNION {{<<v>> \o t : t \in dgDegreeOrders(g, S \ {v})} : v \in top}

\* What main() keeps of one benchmark.
Run(alg, r, nodes) ==
    [alg |-> alg, found |-> r.found, clique |-> r.clique, nodes |-> nodes]

\* The input files of the decision search: those of Inputs, and those with
\* one more edge line whose ends are not below n (main() sizes the vectors
\* on it and enters nothing, lines 119-130).
DecInputs ==
    Inputs \cup {[in EXCEPT !.edges = Append(@, <<in.n, in.n>>)] : in \in Inputs}

\* main() has read its input, lines 90-151; it goes on only with n >= 1.
DecInit ==
    /\ graph = Graph(0)
    /\ hist = NoCall
    /\ k = 0
    /\ ExactConstructed
    /\ GreedyConstructed
    /\ OptUnused
    /\ TabuUnused
    /\ \E in \in DecInputs : \E kk \in Targets :
          /\ in.n >= 1
          /\ dg = parseGraph(in, kk)
    /\ runs = <<>>
    /\ pc = "dec_bt"

\* Benchmark 1, lines 153-161: solve_backtracking on an empty clique.
DecBacktracking ==
    /\ pc = "dec_bt"
    /\ LET r == solve_backtracking(dg, <<>>, 0)
       IN  IF ~dg.loaded /\ r.touched
           THEN pc' = "dec_crashed" /\ UNCHANGED runs
           ELSE /\ runs' = Append(runs, Run("backtracking", r, {}))
                /\ pc' = "dec_sorted"
    /\ UNCHANGED <<decFrame, dg>>

\* Benchmark 2, lines 163-178: solve_smart on the vertices sorted by
\* descending degree.  The comparator reads g.degree, so on a graph whose
\* vectors were never sized a sort of two or more vertices is out of bounds.
DecSorted ==
    /\ pc = "dec_sorted"
    /\ IF ~dg.loaded /\ dg.n >= 2
       THEN pc' = "dec_crashed" /\ UNCHANGED runs
       ELSE \E candidates \in (IF dg.loaded
                               THEN dgDegreeOrders(dg, Vertices(dg.n))
                               ELSE {Iota(dg.n)}) :
               LET r == solve_smart(dg, <<>>, candidates)
               IN  IF ~dg.loaded /\ r.touched
                   THEN pc' = "dec_crashed" /\ UNCHANGED runs
                   ELSE /\ runs' = Append(runs, Run("sorted", r, r.nodes))
                        /\ pc' = "dec_smart"
    /\ UNCHANGED <<decFrame, dg>>

\* Benchmark 3, lines 180-192: solve_smart on the vertices 0, 1, ..., n-1.
DecSmart ==
    /\ pc = "dec_smart"
    /\ LET r == solve_smart(dg, <<>>, Iota(dg.n))
       IN  IF ~dg.loaded /\ r.touched
           THEN pc' = "dec_crashed" /\ UNCHANGED runs
           ELSE /\ runs' = Append(runs, Run("smart", r, r.nodes))
                /\ pc' = "dec_done"
    /\ UNCHANGED <<decFrame, dg>>

DecNext ==
    \/ DecBacktracking
    \/ DecSorted
    \/ DecSmart

SpecDecide == DecInit /\ [][DecNext]_vars

(***************************************************************************)
(* main() of k_clique_solver.cpp on the built-in test graph: the exact     *)
(* solver, the greedy solver and the tabu search, one after the other.     *)
(***************************************************************************)

\* The iteration budget main() gives the tabu search, line 688.
MainMaxIter == 1000

\* The tenure main() gives the tabu search, line 688.
MainTenure == 10

\* The addEdge calls of createTestGraph in their order: the 5-clique of
\* lines 582-586, then the twelve edges of lines 589-600.
TestEdges ==
    << <<0, 1>>, <<0, 2>>, <<0, 3>>, <<0, 4>>, <<1, 2>>, <<1, 3>>, <<1, 4>>,
       <<2, 3>>, <<2, 4>>, <<3, 4>>,
       <<4, 5>>, <<5, 6>>, <<6, 7>>, <<7, 8>>, <<1, 8>>, <<2, 9>>, <<9, 10>>,
       <<10, 11>>, <<11, 12>>, <<12, 13>>, <<13, 14>>, <<3, 10>> >>

RECURSIVE AddEdges(_, _, _)
\* addEdge called on each pair of the list from index idx on.
AddEdges(g, edges, idx) ==
    IF idx > Len(edges)
    THEN g
    ELSE AddEdges(addEdge(g, edges[idx][1], edges[idx][2]), edges, idx + 1)

\* Graph createTestGraph(), lines 575-603.
createTestGraph == AddEdges(Graph(15), TestEdges, 1)

\* The targets tried on the test graph: the 5 of main(), and 6, the first
\* target the graph cannot meet.
ScenarioTargets == {5, 6}

\* main(), lines 641-688: the test graph, k, and the arguments of the tabu
\* search.  With k = 5 the budget is the 1000 of main(); with the target
\* the graph cannot meet the loop of the tabu search runs to its budget,
\* and the budgets explored are those of Budgets.
ScenarioInit ==
    /\ graph = createTestGraph
    /\ hist = NoCall
    /\ k \in ScenarioTargets
    /\ pc = "exact"
    /\ ExactConstructed
    /\ GreedyConstructed
    /\ OptUnused
    /\ DecUnused
    /\ max_iterations \in (IF k = 5 THEN {MainMaxIter} ELSE Budgets)
    /\ tabu_tenure = MainTenure
    /\ TabuLocalsFresh

\* main(), lines 686-689: the greedy solver has returned and the tabu
\* search is constructed and called.
MainTabu ==
    /\ pc = "done"
    /\ pc' = "tabu"
    /\ UNCHANGED <<tabuFrame, current_solution, best_solution, tabu_list,
                   iterations, removed_at, result3>>

\* The fifteen vertices have 24 * 8! degree orders; the fallback of the
\* greedy solver is taken in the form that does not write them out.
ScenarioNext ==
    \/ ExactSolve
    \/ ExactEnter
    \/ ExactLoop
    \/ ExactReturn
    \/ ExactFinish
    \/ GreedyColoring
    \/ GreedyClasses
    \/ GreedyFallbackAnySort
    \/ GreedyResult
    \/ MainTabu
    \/ TabuStart
    \/ TabuIterate
    \/ TabuFinish

SpecScenario == ScenarioInit /\ [][ScenarioNext]_vars

(***************************************************************************)
(* Claims about the Graph class, checked under SpecGraph.                  *)
(***************************************************************************)

\* The arguments of a call are malformed: out of [0, n) or a self-loop.
Malformed(g, u, v) == u < 0 \/ v < 0 \/ u >= g.n \/ v >= g.n \/ u = v

\* C4: after any sequence of addEdge calls the adjacency matrix is
\* symmetric, no vertex is adjacent to itself, the neighbour set of v holds
\* exactly the u with hasEdge(v, u), and getDegree(v) is the size of that set.
C4_GraphInvariant ==
    \A v \in Vertices(getNodes(graph)) :
        /\ ~hasEdge(graph, v, v)
        /\ \A u \in Vertices(getNodes(graph)) :
              hasEdge(graph, v, u) = hasEdge(graph, u, v)
        /\ getNeighbors(graph, v)
              = {u \in Vertices(getNodes(graph)) : hasEdge(graph, v, u)}
        /\ getDegree(graph, v) = Cardinality(getNeighbors(graph, v))

\* A graph with at least two edges whose last call had an out-of-range
\* argument, reached through valid, repeated and malformed calls.
C4_Witness ==
    /\ hist.called
    /\ (hist.u < 0 \/ hist.v >= graph.n)
    /\ \E a \in Vertices(graph.n) : getDegree(graph, a) >= 2

\* C5: a call addEdge(u, v) that directly follows addEdge(u, v) or
\* addEdge(v, u) leaves matrix, neighbour sets and degrees as the first
\* call left them.
C5_AddEdgeIdempotent ==
    [][ ( /\ hist.called
          /\ hist'.called
          /\ \/ (hist'.u = hist.u /\ hist'.v = hist.v)
             \/ (hist'.u = hist.v /\ hist'.v = hist.u) )
        => graph' = graph ]_vars

\* The last call named an edge that was already present, and the Graph is
\* what it was before that call.
C5_Witness ==
    /\ hist.called
    /\ ~Malformed(graph, hist.u, hist.v)
    /\ hasEdge(hist.before, hist.u, hist.v)
    /\ getDegree(graph, hist.u) = 1
    /\ graph = hist.before

\* C6: a call with u or v outside [0, n) or with u = v returns with the
\* Graph exactly as it was before the call.
C6_MalformedRejected ==
    (hist.called /\ Malformed(hist.before, hist.u, hist.v))
        => graph = hist.before

\* A self-loop call on a vertex that already has a neighbour.
C6_Witness ==
    /\ hist.called
    /\ hist.u = hist.v
    /\ hist.u \in Vertices(graph.n)
    /\ getDegree(graph, hist.u) >= 1

(***************************************************************************)
(* Claims about the decision-form solvers, checked under SpecSolve.        *)
(***************************************************************************)

\* Brute force: some set of kk vertices of g is pairwise adjacent.
HasClique(g, kk) ==
    \E S \in SUBSET Vertices(getNodes(g)) :
        /\ Cardinality(S) = kk
        /\ \A u \in S : \A v \in S \ {u} : hasEdge(g, u, v)

\* The vector holds kk distinct vertices of g, pairwise adjacent.
ValidWitness(g, kk, clique) ==
    /\ Len(clique) = kk
    /\ Range(clique) \subseteq Vertices(getNodes(g))
    /\ Cardinality(Range(clique)) = kk
    /\ \A u \in Range(clique) : \A v \in Range(clique) \ {u} : hasEdge(g, u, v)

\* C1: the exact solver returns found = true exactly when the graph has a
\* set of k pairwise-adjacent vertices, and then the returned clique is such
\* a set.
C1_ExactSoundComplete ==
    result1.returned =>
        /\ result1.found = HasClique(graph, k)
        /\ result1.found => ValidWitness(graph, k, result1.clique)

\* A triangle found in a graph that is not complete, after real search.
C1_Witness ==
    /\ result1.returned
    /\ result1.found
    /\ k = 3
    /\ result1.nodes_explored > 4

\* C3: whenever the exact or the greedy-colouring solver returns found =
\* true, the returned vertices pass isClique and are exactly k.
C3_FoundIsKClique ==
    /\ (result1.returned /\ result1.found) =>
          (isClique(graph, result1.clique) /\ Len(result1.clique) = k)
    /\ (result2.returned /\ result2.found) =>
          (isClique(graph, result2.clique) /\ Len(result2.clique) = k)

\* Both solvers returned a triangle of a graph that has non-adjacent pairs.
C3_Witness ==
    /\ result1.returned /\ result1.found
    /\ result2.returned /\ result2.found
    /\ k = 3
    /\ \E u \in Vertices(getNodes(graph)) : getDegree(graph, u) < getNodes(graph) - 1

\* C7: once found is true, until solve returns no call of backtrack is
\* counted and no vertex is committed: nodes_explored stays and
\* current_clique only loses its last elements.
C7_EarlyExit ==
    [][ (found /\ pc \in {"enter", "loop", "return"}) =>
           /\ nodes_explored' = nodes_explored
           /\ Len(current_clique') <= Len(current_clique)
           /\ current_clique' = SubSeq(current_clique, 1, Len(current_clique')) ]_vars

\* After the success the search is back in the loop of a caller that still
\* has a vertex to try, which is adjacent to the whole partial clique.
C7_Witness ==
    /\ found
    /\ pc = "loop"
    /\ Top.i < getNodes(graph)
    /\ is_connected(graph, current_clique, Top.i)

\* C8: greedyColoring gives every vertex a colour >= 0 and no two adjacent
\* vertices the same colour.
C8_ProperColoring ==
    pc \in {"classes", "fallback", "result2", "done"} =>
        /\ \A v \in Vertices(getNodes(graph)) : colors[v] >= 0
        /\ \A u \in Vertices(getNodes(graph)) : \A v \in getNeighbors(graph, u) :
              colors[u] # colors[v]

\* A colouring with a colour shared by two vertices and a colour 2 or more.
C8_Witness ==
    /\ pc = "classes"
    /\ \E u \in Vertices(getNodes(graph)) : colors[u] >= 2
    /\ \E u \in Vertices(getNodes(graph)) : \E v \in Vertices(getNodes(graph)) \ {u} :
          colors[u] = colors[v]

(***************************************************************************)
(* Claims about the maximum-clique solvers, checked under SpecOpt.         *)
(***************************************************************************)

\* S is pairwise adjacent by the edge list of the input file.
InputClique(in, S) ==
    \A u \in S : \A v \in S :
        u < v => \E j \in 1 .. Len(in.edges) : in.edges[j] = <<u, v>>

\* Brute force over all vertex subsets: the largest clique size.
BruteForceMax(in) ==
    LET sizes == {Cardinality(S) : S \in {T \in SUBSET Vertices(in.n) : InputClique(in, T)}}
    IN  CHOOSE m \in sizes : \A x \in sizes : x <= m

\* C2: the size returned by solve_exact, the size of the clique returned by
\* ExactBacktracking::findMaxClique and the size of the clique returned by
\* the first call of BranchAndBound::findMaxClique are the brute-force
\* maximum clique size.
C2_ExactOptimal ==
    /\ \A j \in 1 .. Len(res_exact) : res_exact[j] = BruteForceMax(input)
    /\ \A j \in 1 .. Len(exactClique) : Len(exactClique[j]) = BruteForceMax(input)
    /\ Len(bnbClique) >= 1 => Len(bnbClique[1]) = BruteForceMax(input)

\* All three solvers have answered 3 on a 4-vertex graph that is not
\* complete.
C2_Witness ==
    /\ Len(res_exact) >= 1 /\ res_exact[1] = 3
    /\ Len(exactClique) >= 1 /\ Len(exactClique[1]) = 3
    /\ Len(bnbClique) >= 1 /\ Len(bnbClique[1]) = 3
    /\ input.n = 4

(***************************************************************************)
(* Claims about the tabu search, checked under SpecTabu.                   *)
(***************************************************************************)

\* Vertex v was removed at an iteration t with t < iter < t + tabu_tenure.
InTenure(v, iter) ==
    \E t \in removed_at[v] : t < iter /\ iter < t + tabu_tenure

\* C9: a vertex removed from current at iteration t is put back into
\* current at an iteration i with t < i < t + tenure only when adding it
\* makes current strictly larger than best: |current| + 1 > |best|.
C9_TenureRespected ==
    [][ pc = "tabu_loop" =>
          \A v \in Vertices(getNodes(graph)) :
              ( /\ v \notin Range(current_solution)
                /\ v \in Range(current_solution')
                /\ InTenure(v, iterations') )
              => Len(current_solution) + 1 > Len(best_solution) ]_vars

\* The last vertex of current was removed earlier and is back inside its
\* tenure, which only the aspiration rule allows.
C9_Witness ==
    /\ pc = "tabu_loop"
    /\ Len(current_solution) >= 1
    /\ removed_at[Last(current_solution)] # {}
    /\ \A t \in removed_at[Last(current_solution)] :
          t < iterations /\ iterations < t + tabu_tenure

\* The vertices of a sequence are distinct and pairwise adjacent.
DistinctClique(g, nodes) ==
    /\ \A i, j \in 1 .. Len(nodes) : i # j => nodes[i] # nodes[j]
    /\ \A i, j \in 1 .. Len(nodes) : i # j => hasEdge(g, nodes[i], nodes[j])

\* C10: throughout a tabu run best is a sequence of distinct, pairwise
\* adjacent vertices; its size never decreases from one iteration to the
\* next; and best is replaced only by a current that is strictly larger.
C10_BestMonotoneClique ==
    /\ [](pc \in {"tabu_loop", "tabu_done"} => DistinctClique(graph, best_solution))
    /\ [][ pc = "tabu_loop" =>
             /\ Len(best_solution') >= Len(best_solution)
             /\ best_solution' # best_solution =>
                   /\ best_solution' = current_solution'
                   /\ Len(current_solution') > Len(best_solution) ]_vars

\* The loop has replaced the initial best by a larger clique.
C10_Witness ==
    /\ pc = "tabu_loop"
    /\ iterations >= 1
    /\ Len(best_solution) > Len(initialSolution(graph, k))
    /\ best_solution = current_solution

\* C11: the tabu solver terminates within its budget: the iteration count
\* never exceeds max_iterations and every pass of the loop raises it by
\* one, so solve returns after at most max_iterations passes; on return
\* the count is at most max_iterations and either best has at least k
\* vertices or the count equals max_iterations; when the initial solution
\* has at least k vertices the loop body is never executed.
C11_TabuTerminates ==
    /\ [](pc = "tabu_loop" => iterations <= max_iterations)
    /\ [][ pc = "tabu_loop" =>
             \/ pc' = "tabu_done"
             \/ pc' = "tabu_loop" /\ iterations' = iterations + 1 ]_vars
    /\ [](pc = "tabu_done" =>
            /\ result3.returned
            /\ result3.nodes_explored <= max_iterations
            /\ \/ Len(result3.clique) >= k
               \/ result3.nodes_explored = max_iterations
            /\ Len(initialSolution(graph, k)) >= k => result3.nodes_explored = 0)

\* solve has returned with its whole budget used and best short of k.
C11_Witness ==
    /\ pc = "tabu_done"
    /\ result3.returned
    /\ max_iterations >= 1
    /\ result3.nodes_explored = max_iterations
    /\ Len(result3.clique) < k

(***************************************************************************)
(* Further claims about the exact solver, checked under SpecSolve.         *)
(***************************************************************************)

\* C12: when the graph has no clique of size k, the exact solver returns
\* found = false with an empty clique, and current_clique is empty again
\* when solve returns.
C12_UnsatEmpty ==
    (result1.returned /\ ~HasClique(graph, k)) =>
        /\ result1.found = FALSE
        /\ result1.clique = <<>>
        /\ current_clique = <<>>

\* No triangle, and the search committed and uncommitted vertices before
\* it gave up.
C12_Witness ==
    /\ result1.returned
    /\ k = 3
    /\ ~HasClique(graph, k)
    /\ result1.nodes_explored > 4
    /\ current_clique = <<>>

(***************************************************************************)
(* The target k = 0.                                                       *)
(***************************************************************************)

\* C13: for every graph with n >= 1 and k = 0, each of the three solvers
\* (exact, greedy-colouring, tabu) returns found = true with an empty
\* clique.
C13_ZeroTargetEmptyClique ==
    (k = 0 /\ getNodes(graph) >= 1) =>
        \A r \in {result1, result2, result3} :
            r.returned => (r.found /\ r.clique = <<>>)

(***************************************************************************)
(* The candidate sets of the searches.                                     *)
(***************************************************************************)

\* Every candidate of the search node is adjacent to every vertex of the
\* partial clique and is not in it; at the root the candidates are all of
\* 0 .. n-1.
CandidatesOK(nd, n, Adj(_, _)) ==
    /\ \A v \in Range(nd.candidates) :
          /\ v \notin Range(nd.clique)
          /\ \A u \in Range(nd.clique) : Adj(v, u)
    /\ nd.clique = <<>> => Range(nd.candidates) = Vertices(n)

ExpandNodesOK ==
    LET Adj(v, u) == kc_graph.adjMat[v][u]
    IN  \A c \in 1 .. Len(kc_nodes) : \A nd \in kc_nodes[c] :
            CandidatesOK(nd, kc_graph.n, Adj)

BnbNodesOK ==
    LET Adj(v, u) == areAdjacent(mc_graph, v, u)
    IN  \A c \in 1 .. Len(bnb_nodes) : \A nd \in bnb_nodes[c] :
            CandidatesOK(nd, mc_graph.n, Adj)

SmartNodesOK ==
    LET Adj(v, u) == dgAdj(dg, v, u)
    IN  \A c \in 1 .. Len(runs) : \A nd \in runs[c].nodes :
            CandidatesOK(nd, dg.n, Adj)

TabuCandidatesOK ==
    LET Adj(v, u) == hasEdge(graph, v, u)
        Node(clique) == SearchNode(clique, findCandidates(graph, clique), <<>>)
    IN  pc = "tabu_loop" =>
            /\ CandidatesOK(Node(current_solution), getNodes(graph), Adj)
            /\ CandidatesOK(Node(<<>>), getNodes(graph), Adj)

\* C14: at every search node of solve_smart, expand and
\* BranchAndBound::branchAndBound, and for every result of
\* TabuSearchSolver::findCandidates, each candidate is adjacent to every
\* vertex of the partial clique and is not a member of it; at the root
\* (empty clique) the candidate set is the full vertex range.
C14_CandidateInvariant ==
    /\ SmartNodesOK
    /\ ExpandNodesOK
    /\ BnbNodesOK
    /\ TabuCandidatesOK

(***************************************************************************)
(* What a call of the maximum-clique searches does to the candidate vector *)
(* it is handed, checked under SpecOpt.                                    *)
(***************************************************************************)

IsPrefix(s, t) == Len(s) <= Len(t) /\ s = SubSeq(t, 1, Len(s))

TabuPass == pc = "tabu_loop" /\ iterations' = iterations + 1

\* The pass adds exactly one candidate of current to current.
AddsOneCandidate ==
    \E v \in Range(findCandidates(graph, current_solution)) :
        current_solution' = Append(current_solution, v)

\* C16 as stated: in every iteration in which the candidate set of current
\* is non-empty, exactly one candidate vertex is added to current.
C16_AlwaysMoves ==
    [][ (TabuPass /\ findCandidates(graph, current_solution) # <<>>)
            => AddsOneCandidate ]_vars

\* Candidate v is tabu at iteration iter and adding it would not beat best.
Blocked(v, iter) ==
    /\ v \in DOMAIN tabu_list
    /\ tabu_list[v] > iter
    /\ Len(current_solution) + 1 <= Len(best_solution)

\* C16 amended: in an iteration in which the candidate set of current is
\* non-empty, exactly one candidate is added to current if some candidate
\* is not blocked (not tabu, or adding it makes current larger than best);
\* if every candidate is blocked, the iteration adds and removes nothing:
\* current and best stay as they are and the tabu list gains no entry
\* (the purge of every hundredth iteration may still drop entries).
C16_MovesUnlessBlocked ==
    [][ (TabuPass /\ findCandidates(graph, current_solution) # <<>>) =>
            IF \E v \in Range(findCandidates(graph, current_solution)) :
                   ~Blocked(v, iterations')
            THEN AddsOneCandidate
            ELSE /\ current_solution' = current_solution
                 /\ best_solution' = best_solution
                 /\ \A x \in DOMAIN tabu_list' :
                       x \in DOMAIN tabu_list /\ tabu_list'[x] = tabu_list[x] ]_vars

\* The loop goes on and every candidate of current is blocked at the next
\* iteration: a vertex was removed and the pass that follows adds nothing.
C16_Witness ==
    /\ pc = "tabu_loop"
    /\ iterations >= 1
    /\ LoopTest(iterations, max_iterations, best_solution, k)
    /\ findCandidates(graph, current_solution) # <<>>
    /\ \A v \in Range(findCandidates(graph, current_solution)) :
          Blocked(v, iterations + 1)

(***************************************************************************)
(* The two forms of the greedy fallback agree, checked under SpecSolve.    *)
(***************************************************************************)

\* The cliques the fallback returns over all degree orders of the vertices
\* are exactly those of BuildLoopAnySort.
FallbackFormsAgree ==
    pc = "fallback" =>
        {buildCliqueFromSubset(graph, k, all_nodes) :
            all_nodes \in DegreeOrders(graph, Vertices(getNodes(graph)))}
          = BuildLoopAnySort(graph, k, Vertices(getNodes(graph)), <<>>)

(***************************************************************************)
(* Scenario C: the built-in test graph, checked under SpecScenario.        *)
(***************************************************************************)

\* C17: on the test graph of createTestGraph with k = 5 the exact solver
\* returns found = true with exactly {0,1,2,3,4}, and the greedy-colouring
\* and tabu solvers both return found = true with a valid 5-clique,
\* whatever the degree sort does with ties and whatever the tabu search
\* draws.
C17_ScenarioC ==
    k = 5 =>
        /\ result1.returned =>
              /\ result1.found
              /\ ValidWitness(graph, 5, result1.clique)
              /\ Range(result1.clique) = 0 .. 4
        /\ result2.returned =>
              /\ result2.found
              /\ ValidWitness(graph, 5, result2.clique)
        /\ result3.returned =>
              /\ result3.found
              /\ ValidWitness(graph, 5, result3.clique)

\* main() has run the three solvers on the test graph with k = 5, and the
\* greedy solver got its clique from the fallback, starting elsewhere than
\* the exact solver.
C17_Witness ==
    /\ k = 5
    /\ graph = createTestGraph
    /\ pc = "tabu_done"
    /\ result1.found /\ result2.found /\ result3.found
    /\ ~class_hit
    /\ result2.clique[1] # 0

(***************************************************************************)
(* Boundary inputs of the exact solver, checked under SpecSolve.           *)
(***************************************************************************)

\* The graph has no edge.
Edgeless(g) ==
    \A u, v \in Vertices(getNodes(g)) : ~hasEdge(g, u, v)

\* C18: on a graph of n vertices without edges and k = 2 the exact solver
\* returns found = false with an empty clique, and nodes_explored is at
\* most n + 1, during the search and in the result.
C18_EdgelessPair ==
    (Edgeless(graph) /\ k = 2) =>
        /\ nodes_explored <= getNodes(graph) + 1
        /\ result1.returned =>
              /\ result1.found = FALSE
              /\ result1.clique = <<>>
              /\ result1.nodes_explored <= getNodes(graph) + 1

\* An edgeless graph of at least two vertices: the root and one call for
\* each vertex have been counted, so the bound is attained.
C18_Witness ==
    /\ Edgeless(graph)
    /\ k = 2
    /\ getNodes(graph) >= 2
    /\ result1.returned
    /\ ~result1.found
    /\ result1.nodes_explored = getNodes(graph) + 1

\* C20: when k is larger than the number of vertices the exact solver
\* returns found = false with an empty clique and nodes_explored = 1, and
\* no vertex is ever committed to current_clique.
C20_TargetAboveOrder ==
    k > getNodes(graph) =>
        /\ current_clique = <<>>
        /\ nodes_explored <= 1
        /\ stack # <<>> => Len(stack) = 1
        /\ result1.returned =>
              /\ result1.found = FALSE
              /\ result1.clique = <<>>
              /\ result1.nodes_explored = 1

\* A graph with vertices and a larger target: the root call was the only
\* one.
C20_Witness ==
    /\ getNodes(graph) >= 2
    /\ k > getNodes(graph)
    /\ result1.returned
    /\ result1.nodes_explored = 1
    /\ ~result1.found

(***************************************************************************)
(* The purge of the tabu map, checked under SpecPurge.                     *)
(***************************************************************************)

\* The entries of a map, as pairs <<key, value>>.
MapEntries(map) == {<<x, map[x]>> : x \in DOMAIN map}

\* The entries of the tabu map in a pass of the loop after its move and
\* before its purge: those of the pass's start, with the entry of the
\* vertex removed in this pass set to iteration + tenure.
EntriesBeforePurge ==
    LET put == {v \in Vertices(getNodes(graph)) :
                   iterations' \in removed_at'[v] \ removed_at[v]}
    IN  {e \in MapEntries(tabu_list) : e[1] \notin put}
            \cup {<<v, iterations' + tabu_tenure>> : v \in put}

\* C19: at the end of every iteration whose number is a multiple of 100 the
\* tabu map has no entry whose eligibility iteration is <= the iteration;
\* the purge removes no entry that is still active (eligibility iteration >
\* iteration) and adds none; at every other iteration nothing is purged.
C19_PurgeAtHundreds ==
    [][ TabuPass =>
          IF iterations' % 100 = 0
          THEN /\ \A x \in DOMAIN tabu_list' : tabu_list'[x] > iterations'
               /\ \A e \in EntriesBeforePurge :
                     e[2] > iterations' => e \in MapEntries(tabu_list')
               /\ MapEntries(tabu_list') \subseteq EntriesBeforePurge
          ELSE MapEntries(tabu_list') = EntriesBeforePurge ]_vars

\* Iteration 100 has just ended: a vertex that was removed earlier has no
\* entry any more, and a vertex whose entry is still active has kept it.
C19_Witness ==
    /\ pc = "tabu_loop"
    /\ iterations = 100
    /\ \E v \in Vertices(getNodes(graph)) :
          removed_at[v] # {} /\ v \notin DOMAIN tabu_list
    /\ \E w \in DOMAIN tabu_list : tabu_list[w] > iterations

(***************************************************************************)
(* The branching order of BranchAndBound, checked under SpecOpt.           *)
(***************************************************************************)

\* C21: at the root of the search of BranchAndBound the vertices are
\* committed to the partial clique in non-increasing order of degree: a
\* vertex committed earlier has a degree at least as large as one committed
\* later, and the first one committed has the highest degree of the graph.
C21_DescendingBranching ==
    Len(bnb_commits) >= 1 =>
        LET root == bnb_commits[1]
        IN  /\ \A i, j \in 1 .. Len(root) :
                  i < j => mcGetDegree(mc_graph, root[i]) >= mcGetDegree(mc_graph, root[j])
            /\ root # <<>> =>
                  \A w \in Vertices(mc_graph.n) :
                      mcGetDegree(mc_graph, w) <= mcGetDegree(mc_graph, root[1])

\* What the root call does: it commits in non-decreasing order of degree,
\* starting from a vertex of lowest degree.
RootAscending ==
    Len(bnb_commits) >= 1 =>
        LET root == bnb_commits[1]
        IN  /\ \A i, j \in 1 .. Len(root) :
                  i < j => mcGetDegree(mc_graph, root[i]) <= mcGetDegree(mc_graph, root[j])
            /\ root # <<>> =>
                  \A w \in Vertices(mc_graph.n) :
                      mcGetDegree(mc_graph, w) >= mcGetDegree(mc_graph, root[1])

(***************************************************************************)
(* The decision searches of src/kclique.cpp, checked under SpecDecide.     *)
(***************************************************************************)

\* C22: for every graph, every k >= 0 and both initial orders of the
\* candidate list (degree-descending in benchmark 2, identity in benchmark
\* 3), solve_smart returns true if and only if solve_backtracking returns
\* true: every benchmark that returns agrees with benchmark 1, and when
\* solve_backtracking has returned true the run of solve_smart returns too.
C22_PrunedAgreesWithControl ==
    /\ \A i \in 1 .. Len(runs) : runs[i].found = runs[1].found
    /\ (Len(runs) >= 1 /\ runs[1].found) => pc # "dec_crashed"

\* The graph of dg has k pairwise adjacent vertices.
dgHasClique ==
    \E S \in SUBSET Vertices(dg.n) :
        /\ Cardinality(S) = dg.k
        /\ \A u, v \in S : u # v => dg.adjMat[u][v]

\* On a graph whose vectors were sized no benchmark crashes, and each of
\* the three answers whether the graph has a k-clique.
SizedRunsAgree ==
    dg.loaded =>
        /\ pc # "dec_crashed"
        /\ \A i \in 1 .. Len(runs) : runs[i].found = dgHasClique

\* C23: when solve_backtracking or solve_smart is called with an empty
\* current_clique and returns true, current_clique holds exactly k
\* distinct, pairwise adjacent vertices; when it returns false,
\* current_clique is what it was on entry, the empty vector.
C23_WitnessAndFrame ==
    \A c \in 1 .. Len(runs) :
        LET cl == runs[c].clique
        IN  IF runs[c].found
            THEN /\ Len(cl) = dg.k
                 /\ \A i, j \in 1 .. Len(cl) :
                       i # j => (cl[i] # cl[j] /\ dgAdj(dg, cl[i], cl[j]))
            ELSE cl = <<>>

\* All three searches have returned false for k = 3 on a graph with edges
\* and left the clique empty; the pruned search on the identity order had
\* pushed a vertex and popped it again.
C23_Witness ==
    /\ Len(runs) = 3
    /\ dg.k = 3
    /\ dg.loaded
    /\ \A c \in 1 .. 3 : ~runs[c].found /\ runs[c].clique = <<>>
    /\ \E nd \in runs[3].nodes : Len(nd.clique) >= 1

\* All three searches have returned true with a triangle.
TriangleFound ==
    /\ Len(runs) = 3
    /\ dg.k = 3
    /\ \A c \in 1 .. 3 : runs[c].found /\ Len(runs[c].clique) = 3

(***************************************************************************)
(* The heuristics of kclique.cpp against its exact solver, checked under   *)
(* SpecHeur.                                                               *)
(***************************************************************************)

\* C24: for every graph with n >= 1, the value of solve_greedy_degree and
\* every value solve_randomized can return (any shuffles, any iteration
\* count >= 1) are at least 1 and at most solve_exact.
C24_HeuristicsBelowExact ==
    /\ pc \in {"heur_rand", "heur_done"} =>
          (1 <= kc_heur.res_greedy /\ kc_heur.res_greedy <= res_exact[1])
    /\ pc = "heur_rand" => kc_heur.best_size <= res_exact[1]
    /\ pc = "heur_done" =>
          (1 <= kc_heur.res_rand /\ kc_heur.res_rand <= res_exact[1])

\* Both heuristics have returned, and solve_randomized stayed strictly
\* below the exact size while the degree heuristic reached it.
C24_Witness ==
    /\ pc = "heur_done"
    /\ kc_heur.iters >= 2
    /\ kc_heur.res_rand < res_exact[1]
    /\ kc_heur.res_greedy = res_exact[1]
    /\ res_exact[1] >= 3

(***************************************************************************)
(* The colour-class stage of the greedy solver, checked under SpecSolve.   *)
(***************************************************************************)

\* greedyColoring has returned and colors holds its result.
ColorsKnown == pc \in {"classes", "fallback", "result2", "done"}

\* C25: for k >= 2 the colour-class stage never succeeds: densifying any
\* colour class gives a clique of exactly one vertex, the loop over the
\* classes never leaves through its success break, what it leaves in
\* best_clique is shorter than k, and the clique returned is a result of
\* the fallback over all vertices in an order of non-increasing degree.
C25_ClassStageNeverSucceeds ==
    k >= 2 =>
        /\ ColorsKnown =>
              LET classes == ColorClasses(graph, colors)
              IN  \A c \in 1 .. Len(classes) :
                      Len(buildCliqueFromSubset(graph, k, classes[c])) = 1
        /\ pc \in {"fallback", "result2", "done"} => ~class_hit
        /\ pc = "fallback" => Len(greedy_clique) < k
        /\ result2.returned =>
              \E all_nodes \in DegreeOrders(graph, Vertices(getNodes(graph))) :
                  result2.clique = buildCliqueFromSubset(graph, k, all_nodes)

\* A colour class of at least k >= 2 vertices was densified, to a single
\* vertex, and the solver returned a k-clique all the same.
C25_Witness ==
    /\ k >= 2
    /\ result2.returned
    /\ result2.found
    /\ ~class_hit
    /\ \E c \in 1 .. Len(ColorClasses(graph, colors)) :
          Len(ColorClasses(graph, colors)[c]) >= k

(***************************************************************************)
(* The remove step of the tabu search, checked under SpecTabu.             *)
(***************************************************************************)

\* The pass of the loop that is being taken removes a vertex from current.
RemovesVertex ==
    /\ TabuPass
    /\ \E v \in Vertices(getNodes(graph)) :
          iterations' \in removed_at'[v] \ removed_at[v]

\* C26: in every state of the tabu loop |current| >= |best| - 1; the
\* restart "current := best" is never executed, i.e. a pass that removes a
\* vertex leaves current exactly one vertex shorter; and a vertex is
\* removed only from a current that has no candidate.
C26_NoRestart ==
    /\ [](pc = "tabu_loop" => Len(current_solution) >= Len(best_solution) - 1)
    /\ [][ RemovesVertex =>
             /\ findCandidates(graph, current_solution) = <<>>
             /\ Len(current_solution') = Len(current_solution) - 1
             /\ Range(current_solution') \subseteq Range(current_solution)
             /\ ~(Len(current_solution') < Len(best_solution) \div 2) ]_vars

\* A vertex has been removed from a current of three or more vertices:
\* current is one vertex short of best and still above half of it.
C26_Witness ==
    /\ pc = "tabu_loop"
    /\ Len(best_solution) >= 3
    /\ Len(current_solution) = Len(best_solution) - 1
    /\ \E v \in Range(best_solution) :
          v \notin Range(current_solution) /\ iterations \in removed_at[v]

(***************************************************************************)
(* Which witness the exact solver returns, checked under SpecSolve.        *)
(***************************************************************************)

\* Sequence a comes before sequence b of the same length in the
\* lexicographic order.
LexLess(a, b) ==
    \E i \in 1 .. Len(a) :
        /\ a[i] < b[i]
        /\ \A j \in 1 .. (i - 1) : a[j] = b[j]

\* The k-cliques of the graph, each written in ascending order.
AscendingCliques(g, kk) ==
    {AscendingSeq(S) : S \in {T \in SUBSET Vertices(getNodes(g)) :
                                 /\ Cardinality(T) = kk
                                 /\ \A u, v \in T : u # v => hasEdge(g, u, v)}}

\* C27: whenever ExactBacktrackingSolver::solve reports found = true, the
\* returned clique is in strictly ascending vertex order and no k-clique of
\* the graph, written in ascending order, is lexicographically smaller.
C27_LexSmallestWitness ==
    (result1.returned /\ result1.found) =>
        /\ \A i, j \in 1 .. Len(result1.clique) :
              i < j => result1.clique[i] < result1.clique[j]
        /\ result1.clique \in AscendingCliques(graph, k)
        /\ \A other \in AscendingCliques(graph, k) : ~LexLess(other, result1.clique)

\* The graph has several k-cliques, k >= 2, and the one returned does not
\* start at vertex 0: the search went past vertices before it found it.
C27_Witness ==
    /\ result1.returned
    /\ result1.found
    /\ k >= 2
    /\ Cardinality(AscendingCliques(graph, k)) >= 2
    /\ result1.clique[1] # 0

(***************************************************************************)
(* Repeated calls on one solver object, checked under SpecOpt.             *)
(***************************************************************************)

\* ExactBacktracking::findMaxClique returns the same clique on every call.
ExactRepeatable ==
    \A c \in 1 .. Len(exactClique) : exactClique[c] = exactClique[1]

\* C28: a second call of BranchAndBound::findMaxClique on the same object
\* returns a clique of the same size as the first call, as the repeated
\* calls of ExactBacktracking::findMaxClique do.
C28_Repeatable ==
    /\ \A c \in 1 .. Len(bnbClique) : Len(bnbClique[c]) = Len(bnbClique[1])
    /\ ExactRepeatable

====
